---- MODULE Spec2Model ----
(***************************************************************************)
(* Model of the generic base object OBJ and the renderer to_str of         *)
(* shaunalt_utils/generic_utils/obj.py, with the _get_data overrides of    *)
(* the OBJ subtypes of the repository.                                     *)
(*                                                                         *)
(* The subtypes of shaun_py_utils import OBJ from the obj.py of their own  *)
(* package, which is not among the sources; they are modelled as subtypes  *)
(* of the OBJ of shaunalt_utils.                                           *)
(*                                                                         *)
(* A Python str is a TLA+ string (a sequence of characters): Len, \o and   *)
(* SubSeq are len(), + and slicing.  A Python value is a record tagged by  *)
(* its type in the field t.  A call either returns or raises: its outcome  *)
(* is a record [err, s] where err = "none" means "returned the string s".  *)
(***************************************************************************)
EXTENDS Integers, Sequences, FiniteSets, TLC

VARIABLES obj, lvl, call, ret, indent, other

\* the timers created so far, the records handed to the logger, the reading
\* of perf_counter_ns and the last call on a timer that returned a value
VARIABLES timers, log, clock, last

timerVars == <<timers, log, clock, last>>

\* the attachments of the email (its attribute _attachments), the max_size
\* given to its add_attachment calls and the last call made on it
VARIABLES attachments, max_size, mail

emailVars == <<attachments, max_size, mail>>

\* the sheet under construction (its attributes _name, _headers and _data), the
\* sheets of the workbook (its attribute _sheets) and the last call made on them
VARIABLES sheet, sheets, xlsx

xlsxVars == <<sheet, sheets, xlsx>>

\* the objects that hold references to other objects, by address
VARIABLES heap

graphVars == <<heap>>

\* the timers of the with statements that execution is inside of, innermost
\* last, and for every timer made by a with statement the timers of the
\* with statements that enclosed it
VARIABLES blocks, opened

lapVars == <<blocks, opened>>

vars == <<obj, lvl, call, ret, indent, other, timerVars, emailVars, xlsxVars,
          graphVars, lapVars>>

-----------------------------------------------------------------------------
(* Bounds of the explored inputs *)

MaxStrLen == 152      \* longest run of characters in an input string
MaxItems == 26        \* longest generated container
LvlBelow == 2         \* level arguments tried below 0
MaxIndent == 2        \* largest indent passed to debug
MaxLvl == 4           \* largest level argument tried
MaxTimers == 3        \* timers created in a run
MaxLog == 2           \* records logged in a run
MaxTicks == 1         \* advances of the clock in a run
MaxTimerLvl == 1      \* largest verbosity level given to a new timer
MaxSize == 4          \* largest max_size given to add_attachment
MaxData == 3          \* largest number of bytes of an attached file
MaxSends == 1         \* send calls in a run
MaxHeaders == 2       \* headers given to the constructor of a sheet
MaxRows == 1          \* rows of a sheet
MaxSheets == 2        \* sheets of a workbook
RecursionLimit == 10  \* calls nested before RecursionError is raised
MaxLaps == 3          \* with-blocks of laps entered in a run

-----------------------------------------------------------------------------
(* Outcomes of a call *)

Ok(s) == [err |-> "none", s |-> s]

Raise(e) == [err |-> e, s |-> ""]

Returned(r) == r.err = "none"

-----------------------------------------------------------------------------
(* Builtin string operations used by the renderer *)

Min(a, b) == IF a < b THEN a ELSE b

\* s[:n]
Prefix(s, n) == SubSeq(s, 1, Min(n, Len(s)))

\* s[n:]
Suffix(s, n) == SubSeq(s, n + 1, Len(s))

\* s.replace(old, new) for a one-character old
RECURSIVE replace(_, _, _)
replace(s, old, new) ==
    IF Len(s) = 0 THEN s
    ELSE IF Len(s) = 1 THEN (IF s = old THEN new ELSE s)
    ELSE LET h == Len(s) \div 2
         IN  replace(Prefix(s, h), old, new) \o replace(Suffix(s, h), old, new)

\* sep.join(ss) for a sequence ss of strings
RECURSIVE join(_, _)
join(sep, ss) ==
    IF Len(ss) = 0 THEN ""
    ELSE IF Len(ss) = 1 THEN ss[1]
    ELSE LET h == Len(ss) \div 2
         IN  join(sep, SubSeq(ss, 1, h)) \o sep \o join(sep, SubSeq(ss, h + 1, Len(ss)))

\* c * n for a string c
RECURSIVE Rep(_, _)
Rep(c, n) ==
    IF n <= 0 THEN ""
    ELSE IF n = 1 THEN c
    ELSE LET h == n \div 2 IN Rep(c, h) \o Rep(c, n - h)

Digit(d) == SubSeq("0123456789", d + 1, d + 1)

\* str(n) of an int n
RECURSIVE IntStr(_)
IntStr(n) ==
    IF n < 0 THEN "-" \o IntStr(-n)
    ELSE IF n < 10 THEN Digit(n)
    ELSE IntStr(n \div 10) \o Digit(n % 10)

\* the first error of a sequence of outcomes, evaluated left to right
FirstErr(rs) ==
    IF \A i \in 1..Len(rs) : Returned(rs[i]) THEN "none"
    ELSE rs[CHOOSE i \in 1..Len(rs) :
                /\ ~Returned(rs[i])
                /\ \A j \in 1..(i - 1) : Returned(rs[j])].err

\* sep.join(...) over parts that may raise while they are computed
JoinR(sep, rs) ==
    IF FirstErr(rs) # "none" THEN Raise(FirstErr(rs))
    ELSE Ok(join(sep, [i \in 1..Len(rs) |-> rs[i].s]))

-----------------------------------------------------------------------------
(* Python values *)

None == [t |-> "NoneType"]
Type(mod, name) == [t |-> "type", mod |-> mod, name |-> name]
IntVal(n) == [t |-> "int", n |-> n]
Bool(b) == [t |-> "bool", b |-> b]
Float(whole, frac) == [t |-> "float", whole |-> whole, frac |-> frac]
Complex(re, im) == [t |-> "complex", re |-> re, im |-> im]
Str(s) == [t |-> "str", s |-> s]
Dict(items) == [t |-> "dict", items |-> items]
Item(k, v) == [k |-> k, v |-> v]
\* a sequence or set; elems is in iteration order
Seqn(cls, elems) == [t |-> cls, elems |-> elems]
MemoryView(elems, addr) == [t |-> "memoryview", elems |-> elems, addr |-> addr]
Range(start, stop, step) == [t |-> "range", start |-> start, stop |-> stop, step |-> step]
Function(name, addr) == [t |-> "function", name |-> name, addr |-> addr]
Object(ostr, orepr, iscallable) ==
    [t |-> "object", ostr |-> ostr, orepr |-> orepr, iscallable |-> iscallable]

SeqClasses == {"bytes", "bytearray", "memoryview", "list", "tuple", "set", "frozenset"}

\* an instance of the OBJ subtype cls; snap[l + 1][k] is the value the body of
\* cls._get_data stores under key k at level l, evaluated on the instance
Instance(cls, snap) == [t |-> "OBJ", cls |-> cls, snap |-> snap]

-----------------------------------------------------------------------------
(* Native string conversion: str(x) and repr(x) of the Python builtins *)

Contains(s, c) == \E i \in 1..Len(s) : SubSeq(s, i, i) = c

\* repr(s) of a str s
StrRepr(s) ==
    LET esc == replace(replace(replace(s, "\\", "\\\\"), "\n", "\\n"), "\t", "\\t")
    IN  IF Contains(s, "'") /\ ~Contains(s, "\"")
        THEN "\"" \o esc \o "\""
        ELSE "'" \o replace(esc, "'", "\\'") \o "'"

BoolStr_Mut(x) == IF x.b THEN "1" ELSE "0"

\* str(x) of a bool
BoolStr(x) == IF x.b THEN "True" ELSE "False"

\* str(x) of a float with one decimal digit
FloatStr(x) == IntStr(x.whole) \o "." \o Digit(x.frac)

\* str(z) of a complex number with integral parts
ComplexStr(z) ==
    IF z.re = 0 THEN IntStr(z.im) \o "j"
    ELSE "(" \o IntStr(z.re) \o (IF z.im >= 0 THEN "+" ELSE "") \o IntStr(z.im) \o "j)"

\* chr(n) of a lower-case ASCII letter
Chr(n) == SubSeq("abcdefghijklmnopqrstuvwxyz", n - 96, n - 96)

\* repr(b) of a bytes object made of lower-case ASCII letters
BytesRepr(elems) == "b'" \o join("", [i \in 1..Len(elems) |-> Chr(elems[i].n)]) \o "'"

RangeStr(r) ==
    "range(" \o IntStr(r.start) \o ", " \o IntStr(r.stop)
    \o (IF r.step = 1 THEN "" ELSE ", " \o IntStr(r.step)) \o ")"

TypeStr(ty) ==
    "<class '" \o (IF ty.mod = "builtins" THEN "" ELSE ty.mod \o ".") \o ty.name \o "'>"

\* Call(f, x, l) is the outcome of the nested call f(x, l) that the body of a
\* function makes: to_str(x, l), str(x), repr(x), x.__str__() or x.__repr__()
RECURSIVE Call(_, _, _)

\* repr(x)
PyRepr(x) ==
    CASE x.t = "NoneType" -> Ok("None")
      [] x.t = "type" -> Ok(TypeStr(x))
      [] x.t = "int" -> Ok(IntStr(x.n))
      [] x.t = "bool" -> Ok(BoolStr(x))
      [] x.t = "float" -> Ok(FloatStr(x))
      [] x.t = "complex" -> Ok(ComplexStr(x))
      [] x.t = "str" -> Ok(StrRepr(x.s))
      [] x.t = "dict" ->
            LET inner == JoinR(", ", [i \in 1..Len(x.items) |->
                            JoinR(": ", <<Call("repr", x.items[i].k, 0),
                                         Call("repr", x.items[i].v, 0)>>)])
            IN  IF Returned(inner) THEN Ok("{" \o inner.s \o "}") ELSE inner
      [] x.t \in {"list", "tuple", "set", "frozenset"} ->
            LET inner == JoinR(", ", [i \in 1..Len(x.elems) |-> Call("repr", x.elems[i], 0)])
            IN  IF ~Returned(inner) THEN inner
                ELSE IF x.t = "list" THEN Ok("[" \o inner.s \o "]")
                ELSE IF x.t = "tuple"
                THEN Ok("(" \o inner.s \o (IF Len(x.elems) = 1 THEN "," ELSE "") \o ")")
                ELSE IF x.t = "set"
                THEN Ok(IF Len(x.elems) = 0 THEN "set()" ELSE "{" \o inner.s \o "}")
                ELSE Ok(IF Len(x.elems) = 0 THEN "frozenset()"
                        ELSE "frozenset({" \o inner.s \o "})")
      [] x.t = "bytes" -> Ok(BytesRepr(x.elems))
      [] x.t = "bytearray" -> Ok("bytearray(" \o BytesRepr(x.elems) \o ")")
      [] x.t = "memoryview" -> Ok("<memory at 0x" \o x.addr \o ">")
      [] x.t = "range" -> Ok(RangeStr(x))
      [] x.t = "function" -> Ok("<function " \o x.name \o " at 0x" \o x.addr \o ">")
      [] x.t = "OBJ" -> Call("__repr__", x, 0)
      [] x.t = "object" -> Ok(x.orepr)

\* str(x)
PyStr(x) ==
    CASE x.t = "str" -> Ok(x.s)
      [] x.t = "OBJ" -> Call("__str__", x, 0)
      [] x.t = "object" -> Ok(x.ostr)
      [] OTHER -> PyRepr(x)

-----------------------------------------------------------------------------
(* The OBJ subtypes and their _get_data overrides *)

Classes ==
    {"T", "TIMER", "Email", "XLSX_Book", "XLSX_Header", "XLSX_Sheet", "Nav_Button", "UI_Page",
     "UI_Nav_OBJ", "UI_Nav_Button", "UI_Nav_Dropdown", "UI_Table", "UI_Table_Btns",
     "UI_Table_Row"}

\* For each subtype: its parent class, whether it overrides _get_data, whether
\* the override rebinds data to a new dict ("assign") or stores into the dict
\* of the parent ("update"), and the keys it stores at level 0, 1 and 2, in
\* the order of the source.

\* a subtype written the documented way by a user of the library
T_def ==
    [parent |-> "OBJ", overrides |-> TRUE, mode |-> "update",
     keys |-> <<<<"x">>, <<"x", "y">>, <<"x", "y", "_z">>>>]

\* Nav_Button inherits _get_data
Nav_Button_def ==
    [parent |-> "OBJ", overrides |-> FALSE, mode |-> "update", keys |-> <<<<>>, <<>>, <<>>>>]

\* TIMER._get_data
TIMER_def ==
    [parent |-> "OBJ", overrides |-> TRUE, mode |-> "assign",
     keys |-> <<<<"name", "lvl", "start">>,
                <<"logger", "lvl", "name", "start">>,
                <<"logger", "lvl", "name", "start">>>>]

\* Email._get_data
Email_def ==
    [parent |-> "OBJ", overrides |-> TRUE, mode |-> "assign",
     keys |-> <<<<"subject">>,
                <<"attachments", "bcc", "cc", "subject", "to">>,
                <<"_attachments", "_bcc", "_cc", "_html", "_logger", "_subject", "_to",
                  "recipients">>>>]

\* XLSX_Book._get_data
XLSX_Book_def ==
    [parent |-> "OBJ", overrides |-> TRUE, mode |-> "assign",
     keys |-> <<<<"# sheets">>,
                <<"sheets">>,
                <<"sheets">>>>]

\* XLSX_Header._get_data
XLSX_Header_def ==
    [parent |-> "OBJ", overrides |-> TRUE, mode |-> "assign",
     keys |-> <<<<"label", "width">>,
                <<"label", "width">>,
                <<"label", "width">>>>]

\* XLSX_Sheet._get_data
XLSX_Sheet_def ==
    [parent |-> "OBJ", overrides |-> TRUE, mode |-> "assign",
     keys |-> <<<<"name", "# headers", "# rows">>,
                <<"name", "headers", "data">>,
                <<"name", "headers", "data">>>>]

\* UI_Page._get_data
UI_Page_def ==
    [parent |-> "OBJ", overrides |-> TRUE, mode |-> "update",
     keys |-> <<<<"code", "title">>,
                <<"code", "dt", "forms", "nav", "tables", "title_main", "title_tab">>,
                <<"_code", "_dt", "_forms", "_nav", "_tables", "_title", "_title_prefix",
                  "code", "dt", "forms", "nav", "tables", "title_main", "title_tab">>>>]

\* UI_Nav_OBJ._get_data
UI_Nav_OBJ_def ==
    [parent |-> "OBJ", overrides |-> TRUE, mode |-> "update",
     keys |-> <<<<"label", "route", "visible">>,
                <<"borders", "confirm", "count", "current", "icon", "label", "route",
                  "tooltip", "visible">>,
                <<"_border_bottom", "_border_left", "_border_right", "_border_top", "_confirm",
                  "_count", "_current", "_icon", "_label", "_route", "_tooltip",
                  "border_bottom", "border_left", "border_right", "border_top", "borders",
                  "confirm", "count", "current", "icon", "label", "route", "tooltip",
                  "visible">>>>]

\* UI_Nav_Button._get_data
UI_Nav_Button_def ==
    [parent |-> "UI_Nav_OBJ", overrides |-> TRUE, mode |-> "update",
     keys |-> <<<<>>,
                <<>>,
                <<>>>>]

\* UI_Nav_Dropdown._get_data
UI_Nav_Dropdown_def ==
    [parent |-> "UI_Nav_OBJ", overrides |-> TRUE, mode |-> "update",
     keys |-> <<<<"children">>,
                <<"children">>,
                <<"_children", "children">>>>]

\* UI_Table._get_data
UI_Table_def ==
    [parent |-> "OBJ", overrides |-> TRUE, mode |-> "update",
     keys |-> <<<<"title", "headers", "btns">>,
                <<"btns_add", "btns_download", "btns_table", "desc", "form", "headers",
                  "rows_list", "rows_str", "search", "title">>,
                <<"_btns_add", "_btns_download", "_btns_table", "_desc", "_form", "_headers",
                  "_rows", "_search", "_title", "btns_add", "btns_download", "btns_table",
                  "desc", "form", "headers", "rows_list", "rows_str", "search", "title">>>>]

\* UI_Table_Btns._get_data
UI_Table_Btns_def ==
    [parent |-> "OBJ", overrides |-> TRUE, mode |-> "update",
     keys |-> <<<<"flags">>,
                <<"flag_approve", "flag_archive", "flag_copy", "flag_decline", "flag_delete",
                  "flag_edit", "flag_new", "flag_view", "flags">>,
                <<"_flag_approve", "_flag_archive", "_flag_copy", "_flag_decline",
                  "_flag_delete", "_flag_edit", "_flag_new", "_flag_view", "flag_approve",
                  "flag_archive", "flag_copy", "flag_decline", "flag_delete", "flag_edit",
                  "flag_new", "flag_view", "flags", "KEY_APPROVE", "KEY_ARCHIVE", "KEY_COPY",
                  "KEY_DECLINE", "KEY_DELETE", "KEY_EDIT", "KEY_NEW", "KEY_VIEW">>>>]

\* UI_Table_Row._get_data
UI_Table_Row_def ==
    [parent |-> "OBJ", overrides |-> TRUE, mode |-> "update",
     keys |-> <<<<"id", "cells", "btns", "children">>,
                <<"btn_approve", "btn_archive", "btn_copy", "btn_decline", "btn_delete",
                  "btn_edit", "btn_new", "btn_view", "btns", "btns_dict", "cells",
                  "children_rows", "children_str", "depth", "has_children", "id">>,
                <<"_btns", "_cells", "_children", "_depth", "_id", "_route_func",
                  "btn_approve", "btn_archive", "btn_copy", "btn_decline", "btn_delete",
                  "btn_edit", "btn_new", "btn_view", "btns", "btns_dict", "cells",
                  "children_rows", "children_str", "depth", "has_children", "id",
                  "MAX_DEPTH">>>>]

ClassDef(cls) ==
    CASE cls = "T" -> T_def
      [] cls = "Nav_Button" -> Nav_Button_def
      [] cls = "TIMER" -> TIMER_def
      [] cls = "Email" -> Email_def
      [] cls = "XLSX_Book" -> XLSX_Book_def
      [] cls = "XLSX_Header" -> XLSX_Header_def
      [] cls = "XLSX_Sheet" -> XLSX_Sheet_def
      [] cls = "UI_Page" -> UI_Page_def
      [] cls = "UI_Nav_OBJ" -> UI_Nav_OBJ_def
      [] cls = "UI_Nav_Button" -> UI_Nav_Button_def
      [] cls = "UI_Nav_Dropdown" -> UI_Nav_Dropdown_def
      [] cls = "UI_Table" -> UI_Table_def
      [] cls = "UI_Table_Btns" -> UI_Table_Btns_def
      [] cls = "UI_Table_Row" -> UI_Table_Row_def

OBJ_ValidLevel_Mut(l) == l \in {0, 1, 2, 3}

\* lvl not in [0, 1, 2] of OBJ._get_data
OBJ_ValidLevel(l) == l \in {0, 1, 2}

\* OBJ._get_data(lvl): the outcome carries the snapshot (a sequence of items in
\* insertion order) and the attributes of the instance read so far
OBJ__get_data(l) ==
    IF ~OBJ_ValidLevel(l) THEN [err |-> "ValueError", data |-> <<>>, reads |-> <<>>]
    ELSE [err |-> "none", data |-> <<>>, reads |-> <<>>]

\* data[k] = v on a dict kept as a sequence of items
DictSet(data, k, v) ==
    IF \E i \in 1..Len(data) : data[i].k = k
    THEN [i \in 1..Len(data) |-> IF data[i].k = k THEN Item(k, v) ELSE data[i]]
    ELSE Append(data, Item(k, v))

RECURSIVE DictSetAll(_, _)
DictSetAll(data, items) ==
    IF Len(items) = 0 THEN data
    ELSE DictSetAll(DictSet(data, items[1].k, items[1].v), Tail(items))

\* cls._get_data(self, lvl)
RECURSIVE get_data(_, _, _)
get_data(cls, self, l) ==
    IF cls = "OBJ" THEN OBJ__get_data(l)
    ELSE IF ~ClassDef(cls).overrides THEN get_data(ClassDef(cls).parent, self, l)
    ELSE LET base == get_data(ClassDef(cls).parent, self, l)
             keys == IF l \in {0, 1, 2} THEN ClassDef(cls).keys[l + 1] ELSE <<>>
             stored == [i \in 1..Len(keys) |-> Item(keys[i], self.snap[l + 1][keys[i]])]
         IN  IF base.err # "none" THEN base
             ELSE [err |-> "none",
                   data |-> IF l \notin {0, 1, 2} THEN base.data
                            ELSE IF ClassDef(cls).mode = "assign" THEN stored
                            ELSE DictSetAll(base.data, stored),
                   reads |-> base.reads \o keys]

\* self._get_data(lvl)
self_get_data(self, l) == get_data(self.cls, self, l)

-----------------------------------------------------------------------------
(* The renderer to_str and the representations of OBJ *)

MaxLineLen == 100     \* longest level-0 output left alone
KeepLen == 97         \* characters kept of a longer level-0 output
MaxSeqItems == 20     \* elements of a sequence shown at level 1

\* lvl not in [0, 1, 2] of to_str
ValidLevel(l) == l \in {0, 1, 2}

\* isinstance(o, cls): bool is a subclass of int
IsInstance(o, cls) ==
    CASE cls = "int" -> o.t \in {"int", "bool"}
      [] cls = "sequence" -> o.t \in SeqClasses
      [] OTHER -> o.t = cls

Callable_Mut(o) == o.t = "function" \/ (o.t = "object" /\ o.iscallable)

\* callable(o): OBJ defines __call__, so every OBJ instance is callable
Callable(o) == o.t \in {"function", "OBJ"} \/ (o.t = "object" /\ o.iscallable)

\* o.__name__ of a non-type object
NameOf(o) == IF o.t = "function" THEN Ok(o.name) ELSE Raise("AttributeError")

\* prefix + r.replace('\n', tabs), when r returned
Indented(prefix, r, tabs) ==
    IF Returned(r) THEN Ok(prefix \o replace(r.s, "\n", tabs)) ELSE r

\* prefix + r + suffix, when r returned
Wrapped(prefix, r, suffix) ==
    IF Returned(r) THEN Ok(prefix \o r.s \o suffix) ELSE r

\* the string branch
StrBranch(o, l) ==
    IF l = 0 THEN Ok("\"" \o o.s \o "\"")
    ELSE Ok("\"\n\t\t" \o replace(o.s, "\n", "\n\t\t") \o "\n\t\"")

ValueLevel_Mut(l) == l

ValueLevel_Mut2(l) == l - 2

\* the level at which the values of a mapping rendered at level l are rendered
ValueLevel(l) == l - 1

ElementLevel_Mut == 1 - 1

ElementLevel_Mut2 == 1 + 1

\* the level at which the elements of a sequence rendered at level 2 are rendered
ElementLevel == 1

\* the closing line of a rendered mapping
DictClose == "\n\t}"

\* the dictionary branch
DictBranch(o, l) ==
    IF l = 0 THEN PyStr(o)
    ELSE Wrapped("dict(\n\t\t",
                 JoinR(",\n\t\t", [i \in 1..Len(o.items) |->
                     LET key == Call("str", o.items[i].k, 0)
                     IN  IF ~Returned(key) THEN key
                         ELSE Indented("#" \o IntStr(i - 1) \o " " \o key.s \o ": ",
                                       Call("to_str", o.items[i].v, ValueLevel(l)), "\n\t")]),
                 DictClose)

\* the elements of a sequence shown at level 1: list(obj)[:20]
Shown(elems) == SubSeq(elems, 1, Min(MaxSeqItems, Len(elems)))

MoreItems_Mut(elems) ==
    IF Len(elems) >= MaxSeqItems
    THEN ",\n\t\t... + " \o IntStr(Len(elems) - MaxSeqItems) \o " items"
    ELSE ""

\* the "... + n items" line of a sequence at level 1
MoreItems(elems) ==
    IF Len(elems) > MaxSeqItems
    THEN ",\n\t\t... + " \o IntStr(Len(elems) - MaxSeqItems) \o " items"
    ELSE ""

\* the sequence branch
SeqBranch(o, l) ==
    IF l = 0 THEN JoinR(",", [i \in 1..Len(o.elems) |-> Call("str", o.elems[i], 0)])
    ELSE IF l = 1
    THEN Wrapped(o.t \o "(\n\t\t",
                 JoinR(",\n\t\t", [i \in 1..Len(Shown(o.elems)) |->
                     Wrapped(IntStr(i - 1) \o ": ", Call("str", Shown(o.elems)[i], 0), "")]),
                 MoreItems(o.elems) \o "\n\t)")
    ELSE Wrapped(o.t \o "(\n\t\t",
                 JoinR(",\n\t\t", [i \in 1..Len(o.elems) |->
                     Indented("#" \o IntStr(i - 1) \o ": ",
                              Call("to_str", o.elems[i], ElementLevel), "\n\t")]),
                 "\n\t)")

\* the custom object branch
ObjBranch(o, l) == IF l \in {1, 2} THEN PyStr(o) ELSE PyRepr(o)

\* the unknown object branch
UnknownBranch(o, l) ==
    IF l \in {0, 1} THEN Wrapped("Unknown Object Type: ", PyStr(o), "")
    ELSE Wrapped("Unknown Object Type: ", PyRepr(o), "")

\* the if/elif chain of to_str: the first test that matches selects the branch
Branch(o) ==
    IF o.t = "NoneType" THEN "None"
    ELSE IF IsInstance(o, "type") THEN "type"
    ELSE IF IsInstance(o, "int") THEN "int"
    ELSE IF IsInstance(o, "float") THEN "float"
    ELSE IF IsInstance(o, "complex") THEN "complex"
    ELSE IF IsInstance(o, "str") THEN "str"
    ELSE IF IsInstance(o, "bool") THEN "bool"
    ELSE IF IsInstance(o, "dict") THEN "dict"
    ELSE IF IsInstance(o, "sequence") THEN "sequence"
    ELSE IF IsInstance(o, "range") THEN "range"
    ELSE IF Callable(o) THEN "callable"
    ELSE IF IsInstance(o, "OBJ") THEN "OBJ"
    ELSE "unknown"

\* the output of the selected branch
Dispatch(o, l) ==
    CASE Branch(o) \in {"None", "int", "float", "complex", "bool", "range"} -> PyStr(o)
      [] Branch(o) = "type" -> Ok(o.name)
      [] Branch(o) = "str" -> StrBranch(o, l)
      [] Branch(o) = "dict" -> DictBranch(o, l)
      [] Branch(o) = "sequence" -> SeqBranch(o, l)
      [] Branch(o) = "callable" -> NameOf(o)
      [] Branch(o) = "OBJ" -> ObjBranch(o, l)
      [] Branch(o) = "unknown" -> UnknownBranch(o, l)

NoNewlines_Mut(output) == output

\* prevent multiple lines
NoNewlines(output) == replace(output, "\n", "< NEWLINE />")

Capped_Mut(output) ==
    IF Len(output) >= MaxLineLen
    THEN Prefix(output, KeepLen) \o "... + " \o IntStr(Len(output) - KeepLen)
    ELSE output

Capped_Mut2(output) ==
    IF Len(output) > MaxLineLen
    THEN Prefix(output, KeepLen) \o "... + " \o IntStr(Len(output) - MaxLineLen)
    ELSE output

\* cap length at 100 characters
Capped(output) ==
    IF Len(output) > MaxLineLen
    THEN Prefix(output, KeepLen) \o "... + " \o IntStr(Len(output) - KeepLen)
    ELSE output

\* single-line output additional editing
SingleLine(output) == Capped(NoNewlines(output))

\* to_str(obj, lvl)
to_str(o, l) ==
    IF ~ValidLevel(l) THEN Raise("ValueError")
    ELSE LET output == Dispatch(o, l)
         IN  IF ~Returned(output) THEN output
             ELSE IF l = 0 THEN Ok(SingleLine(output.s))
             ELSE output

\* the entries of a multiple line representation of OBJ: key = to_str(val, lvl),
\* the newlines of the rendered value replaced by tabs
Entries(d, l, tabs) ==
    [i \in 1..Len(d.data) |->
        Indented(d.data[i].k \o " = ", Call("to_str", d.data[i].v, l), tabs)]

OBJ___repr___Mut(self) ==
    LET d == self_get_data(self, 1)
    IN  IF d.err # "none" THEN Raise(d.err)
        ELSE Wrapped("<" \o self.cls \o "\n\t",
                     JoinR(",\n\t", Entries(d, 1, "\n\t")),
                     ",\n/" \o self.cls \o ">")

\* OBJ.__repr__(self)
OBJ___repr__(self) ==
    LET d == self_get_data(self, 1)
    IN  IF d.err # "none" THEN Raise(d.err)
        ELSE Wrapped("<" \o self.cls \o "\n\t",
                     JoinR(",\n\t", Entries(d, 1, "\n\t")),
                     "\n/" \o self.cls \o ">")

OBJ___str___Mut(self) ==
    LET d == self_get_data(self, 1)
    IN  IF d.err # "none" THEN Raise(d.err)
        ELSE Wrapped(self.cls \o " ",
                     JoinR(", ", [i \in 1..Len(d.data) |->
                         Wrapped(d.data[i].k \o " = ", Call("to_str", d.data[i].v, 0), "")]),
                     "")

\* OBJ.__str__(self)
OBJ___str__(self) ==
    LET d == self_get_data(self, 0)
    IN  IF d.err # "none" THEN Raise(d.err)
        ELSE Wrapped(self.cls \o " ",
                     JoinR(", ", [i \in 1..Len(d.data) |->
                         Wrapped(d.data[i].k \o " = ", Call("to_str", d.data[i].v, 0), "")]),
                     "")

\* OBJ.debug(self, indent): '\t' * indent is empty for indent <= 0
OBJ_debug(self, n) ==
    LET t == Rep("\t", n)
        d == self_get_data(self, 2)
    IN  IF d.err # "none" THEN Raise(d.err)
        ELSE Wrapped(t \o "<" \o self.cls \o "\n\t" \o t,
                     JoinR(",\n\t" \o t, Entries(d, 2, "\n\t" \o t)),
                     ",\n" \o t \o "/" \o self.cls \o ">")

Call(f, x, l) ==
    CASE f = "to_str" -> to_str(x, l)
      [] f = "str" -> PyStr(x)
      [] f = "repr" -> PyRepr(x)
      [] f = "__str__" -> OBJ___str__(x)
      [] f = "__repr__" -> OBJ___repr__(x)

\* the calls that the call f(x, l) makes itself, each the function called, its
\* argument and the level given: every call that the code can make is listed,
\* those that an exception raised by an earlier one would prevent included
Subcalls(f, x, l) ==
    CASE f = "to_str" /\ ~ValidLevel(l) -> {}
      [] f = "to_str" /\ ValidLevel(l) ->
            CASE Branch(x) \in {"None", "int", "float", "complex", "bool", "range"} ->
                    {<<"str", x, 0>>}
              [] Branch(x) = "dict" ->
                    IF l = 0 THEN {<<"str", x, 0>>}
                    ELSE {<<"str", x.items[i].k, 0>> : i \in 1..Len(x.items)}
                         \cup {<<"to_str", x.items[i].v, ValueLevel(l)>> : i \in 1..Len(x.items)}
              [] Branch(x) = "sequence" ->
                    IF l = 0 THEN {<<"str", x.elems[i], 0>> : i \in 1..Len(x.elems)}
                    ELSE IF l = 1
                    THEN {<<"str", Shown(x.elems)[i], 0>> : i \in 1..Len(Shown(x.elems))}
                    ELSE {<<"to_str", x.elems[i], ElementLevel>> : i \in 1..Len(x.elems)}
              [] Branch(x) = "OBJ" -> {<<IF l \in {1, 2} THEN "str" ELSE "repr", x, 0>>}
              [] Branch(x) = "unknown" -> {<<IF l \in {0, 1} THEN "str" ELSE "repr", x, 0>>}
              [] OTHER -> {}
      [] f \in {"str", "repr"} ->
            CASE x.t = "OBJ" -> {<<IF f = "str" THEN "__str__" ELSE "__repr__", x, 0>>}
              [] x.t = "dict" ->
                    {<<"repr", x.items[i].k, 0>> : i \in 1..Len(x.items)}
                    \cup {<<"repr", x.items[i].v, 0>> : i \in 1..Len(x.items)}
              [] x.t \in {"list", "tuple", "set", "frozenset"} ->
                    {<<"repr", x.elems[i], 0>> : i \in 1..Len(x.elems)}
              [] OTHER -> {}
      [] f \in {"__str__", "__repr__"} ->
            LET n == IF f = "__str__" THEN 0 ELSE 1
                d == self_get_data(x, n)
            IN  IF d.err # "none" THEN {}
                ELSE {<<"to_str", d.data[i].v, n>> : i \in 1..Len(d.data)}

\* the levels given to to_str by the calls that f(x, l) makes, by itself or
\* through the calls it makes
RECURSIVE ToStrLevels(_, _, _)
ToStrLevels(f, x, l) ==
    UNION {(IF c[1] = "to_str" THEN {c[3]} ELSE {}) \cup ToStrLevels(c[1], c[2], c[3]) :
              c \in Subcalls(f, x, l)}

\* the calls that to_str(x, l) makes to itself, those of its self-calls
\* included: the argument and the level given, the level the caller received
\* and the number of to_str calls nested at that point, to_str(x, l) being
\* call number depth
RECURSIVE SelfCalls(_, _, _)
SelfCalls(x, l, depth) ==
    UNION {{[arg |-> c[2], lvl |-> c[3], from |-> l, depth |-> depth + 1]}
           \cup SelfCalls(c[2], c[3], depth + 1) :
              c \in {d \in Subcalls("to_str", x, l) : d[1] = "to_str"}}

-----------------------------------------------------------------------------
(* The contract methods of OBJ and the comparison operators of Python *)

\* the methods of the contract that the subtypes define themselves
Defines ==
    {<<"XLSX_Header", "__eq__">>}
    \cup {<<cls, "__init__">> : cls \in Classes \ {"T", "Nav_Button"}}

\* the class whose definition of method m an instance of cls runs
RECURSIVE Resolve(_, _)
Resolve(cls, m) ==
    IF cls = "OBJ" THEN "OBJ"
    ELSE IF <<cls, m>> \in Defines THEN cls
    ELSE Resolve(ClassDef(cls).parent, m)

\* cls is sup or derives from it
RECURSIVE IsSubclass(_, _)
IsSubclass(cls, sup) ==
    \/ cls = sup
    \/ cls # "OBJ" /\ IsSubclass(ClassDef(cls).parent, sup)

\* the NotImplemented value a comparison method returns to decline
NotImplemented == Ok("NotImplemented")

\* the outcome of the identity comparison Python falls back to
Identity(m) == Ok(IF m = "__eq__" THEN "a is b" ELSE "a is not b")

OBJ___eq___Mut(self, o) == NotImplemented

\* OBJ.__eq__(self, other)
OBJ___eq__(self, o) == Raise("NotImplementedError")

\* OBJ.__gt__(self, other)
OBJ___gt__(self, o) == Raise("NotImplementedError")

\* OBJ.__call__(self, *args, **kwargs)
OBJ___call__(self) == Raise("NotImplementedError")

\* OBJ.__init__(self, *args, **kwargs)
OBJ___init__(cls) == Raise("NotImplementedError")

\* OBJ.duplicate(self)
OBJ_duplicate(self) == Raise("NotImplementedError")

\* XLSX_Header.__eq__(self, other)
XLSX_Header___eq__(self, o) ==
    IF ~(o.t = "OBJ" /\ IsSubclass(o.cls, "XLSX_Header")) THEN Ok("False")
    ELSE Ok(BoolStr(Bool(/\ self.snap[2]["label"] = o.snap[2]["label"]
                         /\ self.snap[2]["width"] = o.snap[2]["width"])))

\* type(self).m(self, o) for a comparison method m: the builtin types decline
\* an OBJ operand, and OBJ inherits __ne__, __lt__, __le__, __ge__ from object
RECURSIVE Method(_, _, _)
Method(self, m, o) ==
    IF self.t # "OBJ" THEN NotImplemented
    ELSE IF m = "__eq__"
    THEN IF Resolve(self.cls, m) = "XLSX_Header" THEN XLSX_Header___eq__(self, o)
         ELSE OBJ___eq__(self, o)
    ELSE IF m = "__ne__"
    THEN LET r == Method(self, "__eq__", o)
         IN  IF ~Returned(r) \/ r = NotImplemented THEN r
             ELSE Ok(BoolStr(Bool(r.s = "False")))
    ELSE IF m = "__gt__" THEN OBJ___gt__(self, o)
    ELSE NotImplemented

\* the method of the right operand that stands for m of the left operand
Reflected(m) ==
    CASE m = "__eq__" -> "__eq__"
      [] m = "__ne__" -> "__ne__"
      [] m = "__lt__" -> "__gt__"
      [] m = "__gt__" -> "__lt__"
      [] m = "__le__" -> "__ge__"
      [] m = "__ge__" -> "__le__"

\* a <op> b: the reflected method of b goes first when the type of b is a
\* proper subtype of the type of a that defines it; a method that declines
\* hands over to the other operand; when both decline, == and != compare
\* identities and the ordering operators raise TypeError
RichCompare(a, m, b) ==
    LET rm == Reflected(m)
        swap == /\ a.t = "OBJ" /\ b.t = "OBJ" /\ a.cls # b.cls
                /\ IsSubclass(b.cls, a.cls)
                /\ Resolve(b.cls, rm) # Resolve(a.cls, rm)
        first == IF swap THEN Method(b, rm, a) ELSE Method(a, m, b)
        second == IF swap THEN Method(a, m, b) ELSE Method(b, rm, a)
    IN  IF first # NotImplemented THEN first
        ELSE IF second # NotImplemented THEN second
        ELSE IF m \in {"__eq__", "__ne__"} THEN Identity(m)
        ELSE Raise("TypeError")

\* cls(...): the constructors of the subtypes are left out, OBJ's is not
Construct(cls) ==
    IF Resolve(cls, "__init__") = "OBJ" THEN OBJ___init__(cls) ELSE Ok("")

-----------------------------------------------------------------------------
(* TIMER: a timer is a record of its attributes _name, _lvl and _start; the *)
(* logger is the sequence of the records handed to it.  A timer also keeps  *)
(* the timer it was made from by lap (0 for none) and a record the timer    *)
(* that logged it: the code stores neither, the properties refer to both.   *)

DEBUG == 10           \* logging.DEBUG
INFO == 20            \* logging.INFO

\* three digits of n < 1000
Pad3(n) == Digit(n \div 100) \o Digit((n \div 10) % 10) \o Digit(n % 10)

\* f'{n:,}' of an int n >= 0
RECURSIVE Commas(_)
Commas(n) ==
    IF n < 1000 THEN IntStr(n) ELSE Commas(n \div 1000) \o "," \o Pad3(n % 1000)

\* f'{(diff / 1e6):,.3f}' of a number diff >= 0 of nanoseconds: the
\* milliseconds rounded to three decimals (the explored readings of the clock
\* leave no diff half way between two of them)
Millis(diff) ==
    LET micros == (diff \div 1000) + (IF diff % 1000 > 500 THEN 1 ELSE 0)
    IN  Commas(micros \div 1000) \o "." \o Pad3(micros % 1000)

TIMER_get_sub_Mut(self, n) == self.lvl + n

\* TIMER.get_sub(self, indent)
TIMER_get_sub(self, n) ==
    IF self.lvl > -1 THEN self.lvl + n ELSE -1

\* TIMER.log(self, msg, lvl, indent, prefix): the logger after the call
TIMER_log(lg, id, self, msg, level, n, prefix) ==
    IF self.lvl > -1
    THEN Append(lg, [by |-> id, lvl |-> level,
                     msg |-> Rep("|\t", self.lvl + n) \o prefix \o msg])
    ELSE lg

\* TIMER.stop(self, indent): the elapsed time and the logger after the call
TIMER_stop(lg, id, self, now, n) ==
    LET diff == now - self.start
    IN  [diff |-> diff,
         log |-> TIMER_log(lg, id, self,
                           "Elapsed Time: " \o Millis(diff) \o " ms (" \o self.name \o ")",
                           DEBUG, n, "| - ")]

\* TIMER(name, logger, lvl) read at time now: the new timer
TIMER___init__(name, l, now, from) ==
    [name |-> name, lvl |-> l, start |-> now, alive |-> TRUE, parent |-> from]

-----------------------------------------------------------------------------
(* Email: the attachments are pairs of a file name and a file data, of      *)
(* which the number of bytes is kept; mimetypes.guess_type is modelled with *)
(* the entries of its tables that the explored file names reach             *)

WARNING == 30         \* logging.WARNING
ERROR == 40           \* logging.ERROR

\* an Optional[str]
NoneStr == [some |-> FALSE, s |-> ""]
Some(s) == [some |-> TRUE, s |-> s]

\* s.count(c) for a character c
Count(s, c) == Cardinality({i \in 1..Len(s) : SubSeq(s, i, i) = c})

\* s.rfind('.') + 1
LastDot(s) ==
    IF ~Contains(s, ".") THEN 0
    ELSE CHOOSE i \in 1..Len(s) :
             /\ SubSeq(s, i, i) = "."
             /\ \A j \in (i + 1)..Len(s) : SubSeq(s, j, j) # "."

\* s.split('.')[-1]
LastPart(s) == Suffix(s, LastDot(s))

\* c.lower() of a character
LowerChr(c) ==
    LET upper == "ABCDEFGHIJKLMNOPQRSTUVWXYZ"
        lower == "abcdefghijklmnopqrstuvwxyz"
    IN  IF \E i \in 1..26 : SubSeq(upper, i, i) = c
        THEN LET i == CHOOSE i \in 1..26 : SubSeq(upper, i, i) = c IN SubSeq(lower, i, i)
        ELSE c

\* s.lower()
RECURSIVE Lower(_)
Lower(s) == IF s = "" THEN "" ELSE LowerChr(SubSeq(s, 1, 1)) \o Lower(Suffix(s, 1))

\* posixpath.splitext(p) of a name without directory: the extension starts at
\* the last dot that has a character other than a dot before it
splitext(p) ==
    LET i == LastDot(p)
    IN  IF i = 0 \/ \A j \in 1..(i - 1) : SubSeq(p, j, j) = "."
        THEN <<p, "">>
        ELSE <<Prefix(p, i - 1), Suffix(p, i - 1)>>

\* mimetypes.suffix_map
suffix_map ==
    (".svgz" :> ".svg.gz") @@ (".tgz" :> ".tar.gz") @@ (".taz" :> ".tar.gz")
    @@ (".tz" :> ".tar.gz") @@ (".tbz2" :> ".tar.bz2") @@ (".txz" :> ".tar.xz")

\* mimetypes.encodings_map
encodings_map ==
    (".gz" :> "gzip") @@ (".Z" :> "compress") @@ (".bz2" :> "bzip2") @@ (".xz" :> "xz")
    @@ (".br" :> "br")

\* mimetypes.types_map: the standard types of the explored names
types_map ==
    (".pdf" :> "application/pdf") @@ (".txt" :> "text/plain") @@ (".png" :> "image/png")
    @@ (".tar" :> "application/x-tar") @@ (".svg" :> "image/svg+xml") @@ (".csv" :> "text/csv")

\* the loop of guess_type over suffix_map
RECURSIVE Unsuffixed(_)
Unsuffixed(be) ==
    IF Lower(be[2]) \in DOMAIN suffix_map
    THEN Unsuffixed(splitext(be[1] \o suffix_map[Lower(be[2])]))
    ELSE be

\* mimetypes.guess_type(name): the pair of the type and of the encoding
guess_type(name) ==
    LET be == Unsuffixed(splitext(name))
        encoded == be[2] \in DOMAIN encodings_map
        ext == Lower(IF encoded THEN splitext(be[1])[2] ELSE be[2])
    IN  <<IF ext \in DOMAIN types_map THEN Some(types_map[ext]) ELSE NoneStr,
          IF encoded THEN Some(encodings_map[be[2]]) ELSE NoneStr>>

\* Email.FILETYPES
FILETYPES ==
    (".xlsx" :> "application/vnd.openxmlformats-officedocument.spreadsheetml.sheet")

\* the mime_type that add_attachment and _convert_attachment work out: the
\* second component of guess_type(file_name), then the entry of FILETYPES
\* for file_name.split('.')[-1]
MimeType(file_name) ==
    LET mime_type == guess_type(file_name)[2]
    IN  IF ~mime_type.some /\ LastPart(file_name) \in DOMAIN FILETYPES
        THEN Some(FILETYPES[LastPart(file_name)])
        ELSE mime_type

\* names of attached files: of standard types, of the type of FILETYPES,
\* encoded, of no known type, and without extension
FileNames ==
    {"a.pdf", "a.txt", "b.png", "a.xlsx", ".xlsx", "a.tar.gz", "a.tgz", "a.Z", "a.gz",
     "a.PDF", "a.unknown", "readme", "a.b.csv"}

\* MimeType of the explored names, worked out once
MimeTypeOf == [file_name \in FileNames |-> MimeType(file_name)]

\* (mime_type is None) or (len(mime_type.split('/')) != 2)
InvalidMime(mime_type) == ~mime_type.some \/ Count(mime_type.s, "/") + 1 # 2

\* sum([len(f_data.getbuffer()) for _, f_data in self._attachments])
RECURSIVE SumSizes(_)
SumSizes(atts) ==
    IF atts = <<>> THEN 0 ELSE atts[1].data.size + SumSizes(Tail(atts))

\* Email.add_attachment(file_name, file_data, max_size): the value returned
\* and the attachments after the call
Email_add_attachment(atts, file_name, file_data, limit) ==
    IF InvalidMime(MimeTypeOf[file_name]) THEN [ret |-> FALSE, atts |-> atts]
    ELSE IF file_data.size > limit - SumSizes(atts) THEN [ret |-> FALSE, atts |-> atts]
    ELSE [ret |-> TRUE, atts |-> Append(atts, [name |-> file_name, data |-> file_data])]

\* Email._convert_attachment(file_name, file_data)
Email__convert_attachment(file_name, file_data) ==
    IF InvalidMime(MimeTypeOf[file_name]) THEN Raise("InvalidAttachmentError") ELSE Ok("")

\* Email._to_msg(smtp_sender, bounce_address): every attachment is converted
Email__to_msg(atts) ==
    LET e == FirstErr([i \in 1..Len(atts) |->
                 Email__convert_attachment(atts[i].name, atts[i].data)])
    IN  IF e = "none" THEN Ok("") ELSE Raise(e)

\* the email as an OBJ instance: the snapshots of Email._get_data
EmailInstance(atts) ==
    LET names == Seqn("list", [i \in 1..Len(atts) |-> Str(atts[i].name)])
        to == Seqn("list", <<Str("a@b.c")>>)
        none == Seqn("list", <<>>)
    IN  Instance("Email",
            <<[k \in {"subject"} |-> Str("s")],
              [k \in {"attachments", "bcc", "cc", "subject", "to"} |->
                  CASE k = "attachments" -> names
                    [] k = "subject" -> Str("s")
                    [] k = "to" -> to
                    [] OTHER -> none],
              [k \in {"_attachments", "_bcc", "_cc", "_html", "_logger", "_subject", "_to",
                       "recipients"} |->
                  CASE k = "_attachments" -> names
                    [] k \in {"_subject", "_html"} -> Str("s")
                    [] k = "_logger" -> None
                    [] k \in {"_to", "recipients"} -> to
                    [] OTHER -> none]>>)

\* Email.send(smtp_server, smtp_port, smtp_sender, bounce_address) when the
\* server answers as env says: connect is what SMTP(...) does, sendmail what
\* server.sendmail(...) does, quit what the QUIT of SMTP.__exit__ does, which
\* raises SMTPResponseException on a reply other than 221 and passes over a
\* lost connection.  Gives the value returned, the record logged and whether
\* sendmail completed.
Email_send(atts, env) ==
    LET msg == Email__to_msg(atts)
        failed(e) == [ret |-> FALSE, sendmail |-> FALSE,
                      rec |-> [by |-> 0, lvl |-> ERROR, msg |-> "Failed to Send Email " \o e]]
    IN  IF ~Returned(msg) THEN failed(msg.err)
        ELSE IF env.connect # "ok" THEN failed(env.connect)
        ELSE IF env.sendmail \notin {"ok", "bounces"} THEN failed(env.sendmail)
        ELSE IF env.quit \notin {"ok", "SMTPServerDisconnected"}
        THEN [failed(env.quit) EXCEPT !.sendmail = TRUE]
        ELSE [ret |-> TRUE, sendmail |-> TRUE,
              rec |-> IF env.sendmail = "ok"
                      THEN [by |-> 0, lvl |-> INFO,
                            msg |-> "Successfully Sent Email: "
                                    \o Call("__repr__", EmailInstance(atts), 0).s]
                      ELSE [by |-> 0, lvl |-> WARNING,
                            msg |-> "Sent Email with Bounces: {'x@y.z': (550, b'no')}, "
                                    \o Call("__repr__", EmailInstance(atts), 0).s]]

-----------------------------------------------------------------------------
(* XLSX: a sheet is a record of its attributes _name, _headers and _data.    *)
(* The dictionary _headers is the sequence of its entries in insertion      *)
(* order, an entry holding the column id, the position and the header data; *)
(* a row is the sequence of its items, each a column id and a cell data.    *)
(* A call on a sheet gives the exception raised ("none" for a return) and   *)
(* the sheet as the call leaves it.                                         *)

\* XLSX_Header(label, width)
XLSX_Header___init__(label, width) == [label |-> label, width |-> width]

\* a new header: the column id and the header data (_HEADER_NEW)
NewHeader(id, header) == [id |-> id, header |-> header]

\* id in self.headers
HasHeader(self, id) == \E i \in 1..Len(self.headers) : self.headers[i].id = id

\* self.headers[id][0], for an id in self.headers
PosOf(self, id) ==
    LET i == CHOOSE i \in 1..Len(self.headers) : self.headers[i].id = id
    IN  self.headers[i].pos

XLSX_Sheet_add_header_Mut(self, header) ==
    IF HasHeader(self, header.id)
    THEN [err |-> "PreExistingColumnID", sheet |-> self]
    ELSE [err |-> "none",
          sheet |-> [self EXCEPT !.headers =
                        Append(@, [id |-> header.id, pos |-> Len(self.headers) + 1,
                                   header |-> header.header])]]

\* XLSX_Sheet.add_header(self, header)
XLSX_Sheet_add_header(self, header) ==
    IF HasHeader(self, header.id)
    THEN [err |-> "PreExistingColumnID", sheet |-> self]
    ELSE [err |-> "none",
          sheet |-> [self EXCEPT !.headers =
                        Append(@, [id |-> header.id, pos |-> Len(self.headers),
                                   header |-> header.header])]]

\* XLSX_Sheet.add_row(self, row)
XLSX_Sheet_add_row(self, row) == [self EXCEPT !.data = Append(@, row)]

\* for header in headers: self.add_header(header)
RECURSIVE AddHeaders(_, _)
AddHeaders(self, headers) ==
    IF headers = <<>> THEN [err |-> "none", sheet |-> self]
    ELSE LET r == XLSX_Sheet_add_header(self, Head(headers))
         IN  IF r.err # "none" THEN r ELSE AddHeaders(r.sheet, Tail(headers))

\* for row in data: self.add_row(row)
RECURSIVE AddRows(_, _)
AddRows(self, data) ==
    IF data = <<>> THEN self
    ELSE AddRows(XLSX_Sheet_add_row(self, Head(data)), Tail(data))

\* XLSX_Sheet(name, headers, data); None for headers or data is the empty list
XLSX_Sheet___init__(name, headers, data) ==
    LET r == AddHeaders([name |-> name, headers |-> <<>>, data |-> <<>>], headers)
    IN  IF r.err # "none" THEN r
        ELSE [err |-> "none", sheet |-> AddRows(r.sheet, data)]

\* XLSX_Book.add_sheet(self, new_sheet), on the attribute _sheets
XLSX_Book_add_sheet(self_sheets, new_sheet) == Append(self_sheets, new_sheet)

\* the local variable s of create, annotated and not assigned
Unbound == [bound |-> FALSE, name |-> "", cells |-> {}, columns |-> {}]

\* Workbook.add_worksheet(name): an empty worksheet of that name
add_worksheet(name) == [bound |-> TRUE, name |-> name, cells |-> {}, columns |-> {}]

\* the cells of a sheet that create writes: the labels of the headers in row 0,
\* and in row row_num + 1 the data of every item of which the column exists
CellsOf(sh) ==
    {[row |-> 0, col |-> sh.headers[i].pos, data |-> sh.headers[i].header.label] :
        i \in 1..Len(sh.headers)}
    \cup {[row |-> rc[1], col |-> PosOf(sh, sh.data[rc[1]][rc[2]].k),
           data |-> sh.data[rc[1]][rc[2]].v] :
            rc \in {x \in (1..Len(sh.data)) \X (1..2) :
                       /\ x[2] <= Len(sh.data[x[1]])
                       /\ HasHeader(sh, sh.data[x[1]][x[2]].k)}}

\* the columns of a sheet that create sets the width of
ColumnsOf(sh) ==
    {[col |-> sh.headers[i].pos, width |-> sh.headers[i].header.width] :
        i \in 1..Len(sh.headers)}

\* the loop "for sheet in self.sheets" of create: b is the workbook so far, s
\* the local variable s, todo the sheets still to create.  The worksheet is
\* made with s.name, s being read before the assignment
RECURSIVE CreateSheets(_, _, _)
CreateSheets(b, s, todo) ==
    IF todo = <<>> THEN [err |-> "none", file |-> b]
    ELSE IF ~s.bound THEN [err |-> "UnboundLocalError", file |-> <<>>]
    ELSE LET w == [add_worksheet(s.name) EXCEPT !.cells = CellsOf(Head(todo)),
                                                 !.columns = ColumnsOf(Head(todo))]
         IN  CreateSheets(Append(b, w), w, Tail(todo))

\* XLSX_Book.create(self): the file is the sequence of its worksheets
XLSX_Book_create(self_sheets) == CreateSheets(<<>>, Unbound, self_sheets)

-----------------------------------------------------------------------------
(* Objects that refer to one another: the heap holds at each address a list, *)
(* a dict or an instance of a subtype of OBJ, of which a slot is an int or   *)
(* the reference to an object of the heap.  The keys of a dict are 'k1',    *)
(* 'k2', ...; the subtype T stores its slots under x, y, ... at every level. *)

Ref(a) == [t |-> "ref", addr |-> a]

Node(cls, slots) == [t |-> cls, slots |-> slots]

\* the key of slot i of a dict, and of the _get_data of an instance
KeyOf(node, i) ==
    IF node.t = "dict" THEN "k" \o IntStr(i) ELSE SubSeq("xyz", i, i)

InProgress_Mut(A, a) == FALSE

\* Py_ReprEnter: the native repr of the container at address a is under way
InProgress(A, a) == a \in A

\* the calls that f(v, l) makes, in order, v referring to node: the function
\* called, its argument and the level given.  A holds the containers whose
\* native repr is under way
RenderCalls(node, f, v, l, A) ==
    LET m == Len(node.slots)
        each(g, k, upto) == [i \in 1..upto |-> <<g, node.slots[i], k>>]
    IN  CASE f = "to_str" /\ node.t = "dict" ->
                IF l = 0 THEN <<<<"str", v, 0>>>> ELSE each("to_str", ValueLevel(l), m)
          [] f = "to_str" /\ node.t = "list" ->
                IF l = 0 THEN each("str", 0, m)
                ELSE IF l = 1 THEN each("str", 0, Min(m, MaxSeqItems))
                ELSE each("to_str", ElementLevel, m)
          [] f = "to_str" /\ node.t = "OBJ" ->
                IF Callable(node) THEN <<>>
                ELSE <<<<IF l \in {1, 2} THEN "str" ELSE "repr", v, 0>>>>
          [] f \in {"str", "repr"} /\ node.t \in {"dict", "list"} ->
                IF InProgress(A, v.addr) THEN <<>> ELSE each("repr", 0, m)
          [] f \in {"str", "repr"} /\ node.t = "OBJ" ->
                <<<<IF f = "str" THEN "__str__" ELSE "__repr__", v, 0>>>>
          [] f = "__str__" -> each("to_str", 0, m)
          [] f = "__repr__" -> each("to_str", 1, m)

\* what f(v, l) makes of the outcomes rs of its calls
RenderOutput(node, f, v, l, A, rs) ==
    CASE f = "to_str" /\ node.t = "dict" ->
            IF l = 0 THEN rs[1]
            ELSE Wrapped("dict(\n\t\t",
                         JoinR(",\n\t\t", [i \in 1..Len(rs) |->
                             Indented("#" \o IntStr(i - 1) \o " " \o KeyOf(node, i) \o ": ",
                                      rs[i], "\n\t")]),
                         DictClose)
      [] f = "to_str" /\ node.t = "list" ->
            IF l = 0 THEN JoinR(",", rs)
            ELSE IF l = 1
            THEN Wrapped("list(\n\t\t",
                         JoinR(",\n\t\t", [i \in 1..Len(rs) |->
                             Wrapped(IntStr(i - 1) \o ": ", rs[i], "")]),
                         MoreItems(node.slots) \o "\n\t)")
            ELSE Wrapped("list(\n\t\t",
                         JoinR(",\n\t\t", [i \in 1..Len(rs) |->
                             Indented("#" \o IntStr(i - 1) \o ": ", rs[i], "\n\t")]),
                         "\n\t)")
      [] f = "to_str" /\ node.t = "OBJ" ->
            IF Callable(node) THEN NameOf(node) ELSE rs[1]
      [] f \in {"str", "repr"} /\ node.t = "dict" ->
            IF InProgress(A, v.addr) THEN Ok("{...}")
            ELSE Wrapped("{",
                         JoinR(", ", [i \in 1..Len(rs) |->
                             Wrapped("'" \o KeyOf(node, i) \o "': ", rs[i], "")]),
                         "}")
      [] f \in {"str", "repr"} /\ node.t = "list" ->
            IF InProgress(A, v.addr) THEN Ok("[...]")
            ELSE Wrapped("[", JoinR(", ", rs), "]")
      [] f \in {"str", "repr"} /\ node.t = "OBJ" -> rs[1]
      [] f = "__str__" ->
            Wrapped("T ",
                    JoinR(", ", [i \in 1..Len(rs) |->
                        Wrapped(KeyOf(node, i) \o " = ", rs[i], "")]),
                    "")
      [] f = "__repr__" ->
            Wrapped("<T\n\t",
                    JoinR(",\n\t", [i \in 1..Len(rs) |->
                        Indented(KeyOf(node, i) \o " = ", rs[i], "\n\t")]),
                    "\n/T>")

\* f(v, l) on the heap h, for f one of to_str, str, repr, __str__ and __repr__;
\* n is the number of calls that may still be nested before the interpreter
\* raises RecursionError.  The native conversions print a container that is
\* met again as [...] or {...}; to_str, __str__ and __repr__ keep no such record.
\* An int is rendered by str at every level and by every one of the functions.
RECURSIVE Render(_, _, _, _, _, _)
Render(h, f, v, l, A, n) ==
    IF n = 0 THEN Raise("RecursionError")
    ELSE IF v.t # "ref" THEN Ok(IntStr(v.n))
    ELSE LET node == h[v.addr]
             calls == RenderCalls(node, f, v, l, A)
             B == IF f \in {"str", "repr"} THEN A \cup {v.addr} ELSE A
             rs == [i \in 1..Len(calls) |->
                       Render(h, calls[i][1], calls[i][2], calls[i][3], B, n - 1)]
             output == RenderOutput(node, f, v, l, A, rs)
         IN  IF f = "to_str" /\ l = 0 /\ Returned(output)
             THEN Ok(SingleLine(output.s))
             ELSE output

\* the addresses that the object at address a refers to
Refs(h, a) == {h[a].slots[i].addr : i \in {j \in 1..Len(h[a].slots) : h[a].slots[j].t = "ref"}}

\* the addresses reached from address a in one step or more
RECURSIVE ReachIn(_, _, _)
ReachIn(h, S, k) ==
    IF k = 0 THEN S ELSE ReachIn(h, S \cup UNION {Refs(h, b) : b \in S}, k - 1)

Reach(h, a) == ReachIn(h, Refs(h, a), Len(h))

-----------------------------------------------------------------------------
(* The explored inputs *)

Levels == (0 - LvlBelow)..MaxLvl

Indents == -1..MaxIndent

\* strings: runs of one and of two characters of every length up to the bound,
\* a newline at every position, and every short string over a small alphabet
Alphabet == {"a", "\n", "\"", " "}

ShortStrs ==
    {""} \cup Alphabet \cup {c \o d : c \in Alphabet, d \in Alphabet}

RunStrs ==
    {Rep("a", n) : n \in 0..MaxStrLen} \cup {Rep("b\t", n) : n \in 0..MaxStrLen}

LineStrs ==
    {Rep("a", n) \o "\n" \o Rep("b", m) : n \in 0..MaxStrLen, m \in {0, 2}}

Strs == {Str(s) : s \in ShortStrs \cup RunStrs \cup LineStrs}

Atoms ==
    {None, Type("builtins", "int"), Type("shaunalt_utils.generic_utils.obj", "OBJ"),
     Bool(TRUE), Bool(FALSE), Float(1, 5), Float(-2, 0), Complex(1, 2), Complex(0, -2),
     Range(0, 3, 1), Range(0, 10, 2), Function("foo", "7f00"), Function("a\nb", "7f08"),
     Object("u", "<u>", FALSE), Object("u\nv", "<u\nv>", FALSE), Object("u", "<u>", TRUE),
     Object(Rep("q", 120), Rep("r\n", 60), FALSE)}
    \cup {IntVal(n) : n \in {-12, 0, 1, 2, 3, 5, 1000}}

\* an instance of the user subtype T
T(x, y, z) ==
    Instance("T", <<[k \in {"x"} |-> x],
                    [k \in {"x", "y"} |-> IF k = "x" THEN x ELSE y],
                    [k \in {"x", "y", "_z"} |-> IF k = "x" THEN x ELSE IF k = "y" THEN y ELSE z]>>)

\* all the keys a subtype and its parents store at a level
RECURSIVE KeysAt(_, _)
KeysAt(cls, l) ==
    IF cls = "OBJ" THEN {}
    ELSE {ClassDef(cls).keys[l + 1][i] : i \in 1..Len(ClassDef(cls).keys[l + 1])}
         \cup KeysAt(ClassDef(cls).parent, l)

\* the value a subtype stores under key k at level l, on an instance whose
\* attributes all hold v: a len(...) is an int, a type(...) a type, a list
\* comprehension a list
Stored(cls, l, k, v) ==
    IF \/ k \in {"# sheets", "# headers", "# rows"}
       \/ l = 0 /\ <<cls, k>> \in {<<"UI_Nav_Dropdown", "children">>, <<"UI_Table_Row", "cells">>}
    THEN IntVal(1)
    ELSE IF l = 0 /\ <<cls, k>> = <<"UI_Table_Row", "children">>
    THEN Type("builtins", "list")
    ELSE IF \/ l = 0 /\ <<cls, k>> \in {<<"UI_Table", "headers">>, <<"UI_Table_Btns", "flags">>,
                                         <<"UI_Table_Row", "btns">>}
            \/ l = 1 /\ <<cls, k>> = <<"Email", "attachments">>
    THEN Seqn("list", <<Str("f")>>)
    ELSE v

\* an instance of a subtype of the repository whose attributes all hold v
Uniform(cls, v) ==
    Instance(cls, [i \in 1..3 |-> [k \in KeysAt(cls, i - 1) |-> Stored(cls, i - 1, k, v)]])

\* values small enough to be nested
Leaves == {None, IntVal(5), Bool(TRUE), Str("a"), Str("a\nb")}

Nested ==
    Leaves \cup {Seqn("list", <<IntVal(1), Str("a\nb")>>), Seqn("tuple", <<IntVal(1)>>),
                  Seqn("set", <<>>), Dict(<<Item(Str("k"), Str("a\nb"))>>),
                  T(IntVal(5), Str("a\nb"), None), Float(1, 5), Function("foo", "7f00"),
                  Object("u\nv", "<u\nv>", FALSE), Str(Rep("a", 120))}

\* element i of a generated container
Gen(g, i) ==
    CASE g = "index" -> IntVal(i - 1)
      [] g = "byte" -> IntVal(97 + ((i - 1) % 26))
      [] g = "big" -> IntVal(100000 + i)
      [] g = "text" -> Str("s" \o IntStr(i))
      [] g = "lines" -> Str("a\nb" \o IntStr(i))
      [] g = "bool" -> Bool(i % 2 = 0)

GenSeq(g, n) == [i \in 1..n |-> Gen(g, i)]

Seqs ==
    {Seqn(cls, GenSeq("index", n)) : cls \in {"list", "tuple", "set", "frozenset"}, n \in 0..MaxItems}
    \cup {Seqn(cls, GenSeq("byte", n)) : cls \in {"bytes", "bytearray"}, n \in 0..MaxItems}
    \cup {MemoryView(GenSeq("byte", n), "7f10") : n \in 0..MaxItems}
    \cup {Seqn(cls, GenSeq(g, n)) : cls \in {"list", "tuple"},
                                    g \in {"big", "text", "lines", "bool"}, n \in 1..MaxItems}
    \cup {Seqn(cls, <<x>>) : cls \in {"list", "tuple"}, x \in Nested}
    \cup {Seqn(cls, <<x>>) : cls \in {"set", "frozenset"}, x \in Leaves}
    \cup {Seqn("list", <<x, y>>) : x \in Nested, y \in Leaves}

Dicts ==
    {Dict(<<>>)}
    \cup {Dict(<<Item(Str("a"), x)>>) : x \in Nested}
    \cup {Dict(<<Item(Str("a"), x), Item(Str("b"), y)>>) : x \in Nested, y \in Leaves}
    \cup {Dict(<<Item(Str("a"), x), Item(Str("b"), y), Item(Str("c"), z)>>) :
              x \in Leaves, y \in Leaves, z \in Leaves}
    \cup {Dict(<<Item(Str("a"), IntVal(1)), Item(Str("b"), IntVal(2)), Item(Str("c"), IntVal(3))>>),
          Dict(<<Item(IntVal(2), Str("a")), Item(Bool(TRUE), None), Item(None, IntVal(2))>>)}
    \cup {Dict([i \in 1..n |-> Item(Str("k" \o IntStr(i)), Gen(g, i))]) :
              g \in {"index", "lines"}, n \in 1..MaxItems}

Objs ==
    {T(x, y, z) : x \in Nested \cup {IntVal(1000), Seqn("list", GenSeq("big", 25))},
                  y \in {IntVal(5), Str("a\nb"), Seqn("list", <<IntVal(1), IntVal(2)>>)},
                  z \in {None, Dict(<<Item(Str("a"), Str("q\nr"))>>)}}
    \cup {Uniform(cls, v) : cls \in Classes \ {"T"}, v \in {IntVal(1), Str("v\nw")}}

\* containers nested four deep
Deep ==
    {Dict(<<Item(Str("a"), Dict(<<Item(Str("b"), Dict(<<Item(Str("c"),
         Dict(<<Item(Str("d"), Str("a\nb"))>>))>>))>>))>>),
     Seqn("list", <<Seqn("list", <<Seqn("list", <<Seqn("list", <<Str("a\nb")>>)>>)>>)>>),
     Seqn("list", <<Dict(<<Item(Str("a"), Seqn("tuple", <<Dict(<<Item(Str("b"),
         Str("a\nb"))>>)>>))>>)>>),
     Dict(<<Item(Str("a"), Seqn("list", <<Seqn("list", <<Seqn("list",
         <<IntVal(1), Str("a\nb")>>)>>)>>))>>)}

Values == Strs \cup Atoms \cup Seqs \cup Dicts \cup Objs \cup Deep

\* names, verbosity levels and indents given to the timers, and the
\* nanoseconds that pass between two calls
TimerNames == {"A"}

TimerLevels == -1..MaxTimerLvl

TimerIndents == {-1, 0, 1}

Ticks == {1234567}

\* file datas: BytesIO objects of 0 to MaxData bytes
FileDatas == {[size |-> n] : n \in 0..MaxData}

\* what the server does on connect, on sendmail and on QUIT
Servers ==
    {[connect |-> c, sendmail |-> "ok", quit |-> "ok"] :
         c \in {"ConnectionRefusedError", "gaierror", "TimeoutError"}}
    \cup {[connect |-> "ok", sendmail |-> m, quit |-> q] :
              m \in {"ok", "bounces", "SMTPRecipientsRefused", "SMTPSenderRefused",
                      "SMTPDataError", "SMTPServerDisconnected"},
              q \in {"ok", "SMTPServerDisconnected", "SMTPResponseException"}}

\* no call has been made on the email
NoMail ==
    [op |-> "none", file_name |-> "", file_data |-> [size |-> 0], ret |-> FALSE,
     before |-> <<>>, env |-> [connect |-> "ok", sendmail |-> "ok", quit |-> "ok"],
     sendmail |-> FALSE]

\* the message, logging level and prefix given to log: the defaults and others
LogArgs ==
    {[msg |-> "m", lvl |-> DEBUG, prefix |-> "| - "], [msg |-> "w", lvl |-> INFO, prefix |-> ""]}

\* the advances that led to a reading of the clock
TickCount(c) == (c \div 1234567) + ((c % 1234567) \div 7)

\* no call has returned a value
NoCall == [op |-> "none", self |-> 0, indent |-> 0, val |-> 0]

CompareOps == {"__eq__", "__ne__", "__lt__", "__gt__", "__le__", "__ge__"}

\* right operands of a comparison
Others ==
    {None, IntVal(5), Str("a"), Uniform("XLSX_Header", IntVal(1)),
     Uniform("XLSX_Header", Str("v\nw")), Uniform("Email", IntVal(1)),
     Uniform("UI_Nav_Button", IntVal(1))}

\* the sheets, headers and rows tried
ColIds == {"a", "b", "c"}

Headers == {XLSX_Header___init__("A", 5), XLSX_Header___init__("B", 9)}

NewHeaders == {NewHeader(id, h) : id \in ColIds, h \in Headers}

RECURSIVE SeqsUpTo(_, _)
SeqsUpTo(S, n) ==
    IF n = 0 THEN {<<>>}
    ELSE SeqsUpTo(S, n - 1) \cup {Append(q, x) : q \in SeqsUpTo(S, n - 1), x \in S}

HeaderLists == SeqsUpTo(NewHeaders, MaxHeaders)

Rows == {<<[k |-> "a", v |-> "1"], [k |-> "z", v |-> "2"]>>}

RowLists == SeqsUpTo(Rows, MaxRows)

SheetNames == {"one", "two"}

NoSheet == XLSX_Sheet___init__("", <<>>, <<>>).sheet

NoXlsx ==
    [op |-> "none", err |-> "none", arg |-> NewHeader("", XLSX_Header___init__("", 0)),
     before |-> NoSheet, file |-> <<>>]

\* the sheets given to a workbook
BookSheets ==
    {XLSX_Sheet___init__(name, headers, data).sheet :
        name \in SheetNames,
        headers \in {<<>>,
                     <<NewHeader("a", XLSX_Header___init__("A", 5))>>,
                     <<NewHeader("b", XLSX_Header___init__("B", 9)),
                       NewHeader("a", XLSX_Header___init__("A", 5))>>},
        data \in SeqsUpTo(Rows, 1)}

\* the heaps tried: two objects, every kind and every content of the slots
Addrs == {1, 2}

Slots == {IntVal(5)} \cup {Ref(a) : a \in Addrs}

\* one slot, or an int before it
SlotLists == {<<x>> : x \in Slots} \cup {<<IntVal(5), x>> : x \in Slots}

Nodes == {Node(cls, slots) : cls \in {"list", "dict", "OBJ"}, slots \in SlotLists}

Heaps == {<<x, y>> : x \in Nodes, y \in Nodes}

-----------------------------------------------------------------------------
(* The calls: one input is drawn, then one operation is applied to it *)

Init ==
    /\ obj \in Values
    /\ lvl \in Levels
    /\ call = "none"
    /\ ret = Ok("")
    /\ indent = 0
    /\ other = None
    /\ timers = <<>>
    /\ log = <<>>
    /\ clock = 0
    /\ last = NoCall
    /\ attachments = <<>>
    /\ max_size = 0
    /\ mail = NoMail
    /\ sheet = NoSheet
    /\ sheets = <<>>
    /\ xlsx = NoXlsx
    /\ heap = <<>>
    /\ blocks = <<>>
    /\ opened = <<>>

\* to_str(obj, lvl)
Call_to_str ==
    /\ call = "none"
    /\ call' = "to_str"
    /\ ret' = Call("to_str", obj, lvl)
    /\ UNCHANGED <<obj, lvl, indent, other, timerVars, emailVars, xlsxVars, graphVars,
                   lapVars>>

\* str(obj) of an OBJ instance
Call___str__ ==
    /\ call = "none"
    /\ obj.t = "OBJ"
    /\ call' = "__str__"
    /\ ret' = Call("__str__", obj, 0)
    /\ UNCHANGED <<obj, lvl, indent, other, timerVars, emailVars, xlsxVars, graphVars,
                   lapVars>>

\* repr(obj) of an OBJ instance
Call___repr__ ==
    /\ call = "none"
    /\ obj.t = "OBJ"
    /\ call' = "__repr__"
    /\ ret' = Call("__repr__", obj, 0)
    /\ UNCHANGED <<obj, lvl, indent, other, timerVars, emailVars, xlsxVars, graphVars,
                   lapVars>>

\* obj._get_data(lvl) of an OBJ instance
Call__get_data ==
    /\ call = "none"
    /\ obj.t = "OBJ"
    /\ call' = "_get_data"
    /\ ret' = self_get_data(obj, lvl)
    /\ UNCHANGED <<obj, lvl, indent, other, timerVars, emailVars, xlsxVars, graphVars,
                   lapVars>>

\* obj.debug(n) of an OBJ instance
Call_debug ==
    /\ call = "none"
    /\ obj.t = "OBJ"
    /\ \E n \in Indents :
          /\ indent' = n
          /\ ret' = OBJ_debug(obj, n)
    /\ call' = "debug"
    /\ UNCHANGED <<obj, lvl, other, timerVars, emailVars, xlsxVars, graphVars,
                   lapVars>>

\* obj <op> o for a comparison operator and a right operand o
Call_compare ==
    /\ call = "none"
    /\ obj.t = "OBJ"
    /\ \E m \in CompareOps, o \in Others :
          /\ call' = m
          /\ other' = o
          /\ ret' = RichCompare(obj, m, o)
    /\ UNCHANGED <<obj, lvl, indent, timerVars, emailVars, xlsxVars, graphVars,
                   lapVars>>

\* obj.duplicate()
Call_duplicate ==
    /\ call = "none"
    /\ obj.t = "OBJ"
    /\ call' = "duplicate"
    /\ ret' = OBJ_duplicate(obj)
    /\ UNCHANGED <<obj, lvl, indent, other, timerVars, emailVars, xlsxVars, graphVars,
                   lapVars>>

\* obj(...)
Call___call__ ==
    /\ call = "none"
    /\ obj.t = "OBJ"
    /\ call' = "__call__"
    /\ ret' = OBJ___call__(obj)
    /\ UNCHANGED <<obj, lvl, indent, other, timerVars, emailVars, xlsxVars, graphVars,
                   lapVars>>

\* cls(...) for OBJ and for the type of obj
Call___init__ ==
    /\ call = "none"
    /\ obj.t = "OBJ"
    /\ \E cls \in {obj.cls, "OBJ"} :
          /\ other' = Type("", cls)
          /\ ret' = Construct(cls)
    /\ call' = "__init__"
    /\ UNCHANGED <<obj, lvl, indent, timerVars, emailVars, xlsxVars, graphVars,
                   lapVars>>

Next ==
    \/ Call_compare
    \/ Call_duplicate
    \/ Call___call__
    \/ Call___init__
    \/ Call_debug
    \/ Call_to_str
    \/ Call___str__
    \/ Call___repr__
    \/ Call__get_data

Spec == Init /\ [][Next]_vars

-----------------------------------------------------------------------------
(* The timers: timers are created, lapped, logged to, stopped and destroyed *)
(* in any order while the clock advances                                    *)

TimerInit ==
    /\ obj = None
    /\ lvl = 0
    /\ call = "none"
    /\ ret = Ok("")
    /\ indent = 0
    /\ other = None
    /\ timers = <<>>
    /\ log = <<>>
    /\ clock = 0
    /\ last = NoCall
    /\ attachments = <<>>
    /\ max_size = 0
    /\ mail = NoMail
    /\ sheet = NoSheet
    /\ sheets = <<>>
    /\ xlsx = NoXlsx
    /\ heap = <<>>
    /\ blocks = <<>>
    /\ opened = <<>>

\* the timers that have not been destroyed
Alive == {id \in 1..Len(timers) : timers[id].alive}

\* the new timer of the constructor is stored and logs its name
Created(name, l, from) ==
    LET id == Len(timers) + 1
        self == TIMER___init__(name, l, clock, from)
    IN  /\ Len(timers) < MaxTimers
        /\ Len(TIMER_log(log, id, self, name, DEBUG, 0, "| - ")) <= MaxLog
        /\ timers' = Append(timers, self)
        /\ log' = TIMER_log(log, id, self, self.name, DEBUG, 0, "| - ")

\* TIMER(name, logger, lvl)
Call_TIMER ==
    /\ \E name \in TimerNames, l \in TimerLevels :
          /\ Created(name, l, 0)
          /\ last' = NoCall
    /\ UNCHANGED <<obj, lvl, call, ret, indent, other, clock, emailVars, xlsxVars, graphVars,
                   lapVars>>

\* timers[id].lap(name, n)
Call_lap ==
    /\ \E id \in Alive, name \in TimerNames, n \in TimerIndents :
          /\ Created(name, TIMER_get_sub(timers[id], n), id)
          /\ last' = [op |-> "lap", self |-> id, indent |-> n, val |-> Len(timers) + 1]
    /\ UNCHANGED <<obj, lvl, call, ret, indent, other, clock, emailVars, xlsxVars, graphVars,
                   lapVars>>

\* timers[id].get_sub(n)
Call_get_sub ==
    /\ \E id \in Alive, n \in TimerIndents :
          last' = [op |-> "get_sub", self |-> id, indent |-> n,
                   val |-> TIMER_get_sub(timers[id], n)]
    /\ UNCHANGED <<obj, lvl, call, ret, indent, other, timers, log, clock, emailVars, xlsxVars, graphVars,
                   lapVars>>

\* timers[id].log(msg, level, n, prefix)
Call_log ==
    /\ \E id \in Alive, n \in TimerIndents, a \in LogArgs :
          LET lg == TIMER_log(log, id, timers[id], a.msg, a.lvl, n, a.prefix)
          IN  /\ Len(lg) <= MaxLog
              /\ log' = lg
              /\ last' = NoCall
    /\ UNCHANGED <<obj, lvl, call, ret, indent, other, timers, clock, emailVars, xlsxVars, graphVars,
                   lapVars>>

\* timers[id].stop(n)
Call_stop ==
    /\ \E id \in Alive, n \in TimerIndents :
          LET r == TIMER_stop(log, id, timers[id], clock, n)
          IN  /\ Len(r.log) <= MaxLog
              /\ log' = r.log
              /\ last' = [op |-> "stop", self |-> id, indent |-> n, val |-> r.diff]
    /\ UNCHANGED <<obj, lvl, call, ret, indent, other, timers, clock, emailVars, xlsxVars, graphVars,
                   lapVars>>

\* the last reference to timers[id] goes away: __del__ runs self.stop(1)
Call___del__ ==
    /\ \E id \in Alive :
          LET r == TIMER_stop(log, id, timers[id], clock, 1)
          IN  /\ Len(r.log) <= MaxLog
              /\ log' = r.log
              /\ timers' = [timers EXCEPT ![id].alive = FALSE]
              /\ last' = NoCall
    /\ UNCHANGED <<obj, lvl, call, ret, indent, other, clock, emailVars, xlsxVars, graphVars,
                   lapVars>>

\* time passes between two calls
Tick ==
    /\ \E d \in Ticks :
          /\ TickCount(clock) < MaxTicks
          /\ clock' = clock + d
    /\ UNCHANGED <<obj, lvl, call, ret, indent, other, timers, log, last, emailVars, xlsxVars, graphVars,
                   lapVars>>

TimerNext ==
    \/ Call_TIMER
    \/ Call_lap
    \/ Call_get_sub
    \/ Call_log
    \/ Call_stop
    \/ Call___del__
    \/ Tick

TimerSpec == TimerInit /\ [][TimerNext]_vars

-----------------------------------------------------------------------------
(* The email: files are attached to a new email and the email is sent, in   *)
(* any order, the calls of add_attachment made with one max_size            *)

EmailInit ==
    /\ obj = None
    /\ lvl = 0
    /\ call = "none"
    /\ ret = Ok("")
    /\ indent = 0
    /\ other = None
    /\ timers = <<>>
    /\ log = <<>>
    /\ clock = 0
    /\ last = NoCall
    /\ attachments = <<>>
    /\ max_size \in 0..MaxSize
    /\ mail = NoMail
    /\ sheet = NoSheet
    /\ sheets = <<>>
    /\ xlsx = NoXlsx
    /\ heap = <<>>
    /\ blocks = <<>>
    /\ opened = <<>>

\* email.add_attachment(file_name, file_data, max_size)
Call_add_attachment ==
    /\ \E file_name \in FileNames, file_data \in FileDatas :
          LET r == Email_add_attachment(attachments, file_name, file_data, max_size)
          IN  /\ attachments' = r.atts
              /\ mail' = [NoMail EXCEPT !.op = "add_attachment", !.file_name = file_name,
                                        !.file_data = file_data, !.ret = r.ret,
                                        !.before = attachments]
    /\ UNCHANGED <<obj, lvl, call, ret, indent, other, timerVars, max_size, xlsxVars,
                   graphVars, lapVars>>

\* email.send(smtp_server, smtp_port, smtp_sender, bounce_address)
Call_send ==
    /\ Len(log) < MaxSends
    /\ \E env \in Servers :
          LET r == Email_send(attachments, env)
          IN  /\ log' = Append(log, r.rec)
              /\ mail' = [NoMail EXCEPT !.op = "send", !.ret = r.ret, !.env = env,
                                        !.sendmail = r.sendmail, !.before = attachments]
    /\ UNCHANGED <<obj, lvl, call, ret, indent, other, timers, clock, last,
                   attachments, max_size, xlsxVars, graphVars, lapVars>>

EmailNext ==
    \/ Call_add_attachment
    \/ Call_send

EmailSpec == EmailInit /\ [][EmailNext]_vars

-----------------------------------------------------------------------------
(* The sheet: a sheet is constructed, then headers and rows are added to it *)

SheetInit ==
    /\ obj = None
    /\ lvl = 0
    /\ call = "none"
    /\ ret = Ok("")
    /\ indent = 0
    /\ other = None
    /\ timers = <<>>
    /\ log = <<>>
    /\ clock = 0
    /\ last = NoCall
    /\ attachments = <<>>
    /\ max_size = 0
    /\ mail = NoMail
    /\ \E name \in SheetNames, headers \in HeaderLists, data \in RowLists :
          LET r == XLSX_Sheet___init__(name, headers, data)
          IN  /\ r.err = "none"
              /\ sheet = r.sheet
    /\ sheets = <<>>
    /\ xlsx = NoXlsx
    /\ heap = <<>>
    /\ blocks = <<>>
    /\ opened = <<>>

\* sheet.add_header(header)
Call_add_header ==
    /\ \E header \in NewHeaders :
          LET r == XLSX_Sheet_add_header(sheet, header)
          IN  /\ sheet' = r.sheet
              /\ xlsx' = [NoXlsx EXCEPT !.op = "add_header", !.err = r.err,
                                        !.arg = header, !.before = sheet]
    /\ UNCHANGED <<obj, lvl, call, ret, indent, other, timerVars, emailVars, sheets,
                   graphVars, lapVars>>

\* sheet.add_row(row)
Call_add_row ==
    /\ Len(sheet.data) < MaxRows
    /\ \E row \in Rows :
          /\ sheet' = XLSX_Sheet_add_row(sheet, row)
          /\ xlsx' = [NoXlsx EXCEPT !.op = "add_row", !.before = sheet]
    /\ UNCHANGED <<obj, lvl, call, ret, indent, other, timerVars, emailVars, sheets,
                   graphVars, lapVars>>

SheetNext ==
    \/ Call_add_header
    \/ Call_add_row

SheetSpec == SheetInit /\ [][SheetNext]_vars

-----------------------------------------------------------------------------
(* The workbook: sheets are added to a new workbook and the file is created *)

BookInit ==
    /\ obj = None
    /\ lvl = 0
    /\ call = "none"
    /\ ret = Ok("")
    /\ indent = 0
    /\ other = None
    /\ timers = <<>>
    /\ log = <<>>
    /\ clock = 0
    /\ last = NoCall
    /\ attachments = <<>>
    /\ max_size = 0
    /\ mail = NoMail
    /\ sheet = NoSheet
    /\ sheets = <<>>
    /\ xlsx = NoXlsx
    /\ heap = <<>>
    /\ blocks = <<>>
    /\ opened = <<>>

\* book.add_sheet(new_sheet)
Call_add_sheet ==
    /\ Len(sheets) < MaxSheets
    /\ \E new_sheet \in BookSheets :
          /\ sheets' = XLSX_Book_add_sheet(sheets, new_sheet)
          /\ xlsx' = [NoXlsx EXCEPT !.op = "add_sheet"]
    /\ UNCHANGED <<obj, lvl, call, ret, indent, other, timerVars, emailVars, sheet,
                   graphVars, lapVars>>

\* book.create()
Call_create ==
    /\ LET r == XLSX_Book_create(sheets)
       IN  xlsx' = [NoXlsx EXCEPT !.op = "create", !.err = r.err, !.file = r.file]
    /\ UNCHANGED <<obj, lvl, call, ret, indent, other, timerVars, emailVars, sheet,
                   sheets, graphVars, lapVars>>

BookNext ==
    \/ Call_add_sheet
    \/ Call_create

BookSpec == BookInit /\ [][BookNext]_vars

-----------------------------------------------------------------------------
(* The graphs: an object of a heap is rendered *)

GraphInit ==
    /\ obj \in {Ref(a) : a \in Addrs}
    /\ lvl \in {0, 1, 2}
    /\ call = "none"
    /\ ret = Ok("")
    /\ indent = 0
    /\ other = None
    /\ timers = <<>>
    /\ log = <<>>
    /\ clock = 0
    /\ last = NoCall
    /\ attachments = <<>>
    /\ max_size = 0
    /\ mail = NoMail
    /\ sheet = NoSheet
    /\ sheets = <<>>
    /\ xlsx = NoXlsx
    /\ heap \in Heaps
    /\ blocks = <<>>
    /\ opened = <<>>

\* to_str(obj, lvl)
Render_to_str ==
    /\ call = "none"
    /\ call' = "to_str"
    /\ ret' = Render(heap, "to_str", obj, lvl, {}, RecursionLimit)
    /\ UNCHANGED <<obj, lvl, indent, other, timerVars, emailVars, xlsxVars, graphVars,
                   lapVars>>

\* str(obj)
Render_str ==
    /\ call = "none"
    /\ call' = "str"
    /\ ret' = Render(heap, "str", obj, 0, {}, RecursionLimit)
    /\ UNCHANGED <<obj, lvl, indent, other, timerVars, emailVars, xlsxVars, graphVars,
                   lapVars>>

\* repr(obj)
Render_repr ==
    /\ call = "none"
    /\ call' = "repr"
    /\ ret' = Render(heap, "repr", obj, 0, {}, RecursionLimit)
    /\ UNCHANGED <<obj, lvl, indent, other, timerVars, emailVars, xlsxVars, graphVars,
                   lapVars>>

GraphNext ==
    \/ Render_to_str
    \/ Render_str
    \/ Render_repr

GraphSpec == GraphInit /\ [][GraphNext]_vars

-----------------------------------------------------------------------------
(* Properties *)

\* the lines of a string: s.split('\n')
RECURSIVE Lines(_)
Lines(s) ==
    IF ~Contains(s, "\n") THEN <<s>>
    ELSE LET i == CHOOSE i \in 1..Len(s) :
                      /\ SubSeq(s, i, i) = "\n"
                      /\ \A j \in 1..(i - 1) : SubSeq(s, j, j) # "\n"
         IN  <<Prefix(s, i - 1)>> \o Lines(Suffix(s, i))

\* C1: a level outside {0, 1, 2} makes to_str raise the invalid-level error
\* whatever the value is, also a value whose dispatch would raise, and makes
\* _get_data raise it on OBJ and on every subtype before any attribute of
\* the instance is read and with no snapshot built.
C1_InvalidLevelRaises ==
    lvl \notin {0, 1, 2} =>
        /\ call = "to_str" => ret = Raise("ValueError")
        /\ call = "_get_data" =>
              ret = [err |-> "ValueError", data |-> <<>>, reads |-> <<>>]

C1_Witness ==
    /\ call = "_get_data"
    /\ obj.cls = "UI_Nav_Dropdown"
    /\ lvl = 3
    /\ ret.err = "ValueError"

\* C2: a string returned by to_str at level 0 contains no newline character.
C2_Level0SingleLine ==
    (call = "to_str" /\ lvl = 0 /\ Returned(ret)) => ~Contains(ret.s, "\n")

C2_Witness ==
    /\ call = "to_str"
    /\ lvl = 0
    /\ obj.t = "str"
    /\ Contains(obj.s, "\n")
    /\ Returned(ret)
    /\ Len(ret.s) > MaxLineLen

\* C3: a boolean renders as True or False at every level in {0, 1, 2}, never
\* as the integer text 1 or 0.
C3_BoolTokens ==
    (call = "to_str" /\ obj.t = "bool" /\ lvl \in {0, 1, 2}) =>
        /\ ret = Ok(IF obj.b THEN "True" ELSE "False")
        /\ ret.s \notin {"1", "0"}

C3_Witness ==
    /\ call = "to_str"
    /\ obj = Bool(TRUE)
    /\ lvl = 2
    /\ ret = Ok("True")

\* C4 as stated: a string without newline of at most 100 characters renders
\* at level 0 as the string between double quotes.
C4_Original ==
    (/\ call = "to_str" /\ lvl = 0 /\ obj.t = "str"
     /\ ~Contains(obj.s, "\n") /\ Len(obj.s) <= 100) =>
        ret = Ok("\"" \o obj.s \o "\"")

\* C4 amended: a string without newline of at most 98 characters renders at
\* level 0 as the string between double quotes, with no truncation (the two
\* quotes count towards the 100 characters).
C4_QuotedUpTo98 ==
    (/\ call = "to_str" /\ lvl = 0 /\ obj.t = "str"
     /\ ~Contains(obj.s, "\n") /\ Len(obj.s) <= 98) =>
        ret = Ok("\"" \o obj.s \o "\"")

C4_Witness ==
    /\ call = "to_str"
    /\ lvl = 0
    /\ obj.t = "str"
    /\ ~Contains(obj.s, "\n")
    /\ Len(obj.s) = 98
    /\ Returned(ret)
    /\ Len(ret.s) = 100

\* C5 as stated: a string of 150 characters without newline renders at level
\* 0 as 97 characters followed by "... + 53".
C5_Original ==
    (/\ call = "to_str" /\ lvl = 0 /\ obj.t = "str"
     /\ ~Contains(obj.s, "\n") /\ Len(obj.s) = 150) =>
        /\ Returned(ret)
        /\ Suffix(ret.s, 97) = "... + 53"

\* C5 amended: a string of 150 characters without newline renders at level 0
\* as the first 97 characters of its quoted form (the opening quote and the
\* first 96 characters of the string) followed by "... + 55", the number of
\* characters of the quoted form that were omitted.
C5_TruncatedQuoted ==
    (/\ call = "to_str" /\ lvl = 0 /\ obj.t = "str"
     /\ ~Contains(obj.s, "\n") /\ Len(obj.s) = 150) =>
        ret = Ok("\"" \o Prefix(obj.s, 96) \o "... + 55")

C5_Witness ==
    /\ call = "to_str"
    /\ lvl = 0
    /\ obj = Str(Rep("a", 150))
    /\ Returned(ret)
    /\ Suffix(ret.s, 97) = "... + 55"

\* C6 as stated: a string returned by to_str at level 0 has at most 100
\* characters.
C6_Original ==
    (call = "to_str" /\ lvl = 0 /\ Returned(ret)) => Len(ret.s) <= 100

\* C7 as stated: the mapping {a: 1, b: 2, c: 3} renders at level 1 as the
\* opening "dict(", the entries "#0 a: 1", "#1 b: 2", "#2 c: 3" on indented
\* lines separated by commas, and a closing parenthesis on the last line.
C7_Original ==
    (/\ call = "to_str" /\ lvl = 1
     /\ obj = Dict(<<Item(Str("a"), IntVal(1)), Item(Str("b"), IntVal(2)),
                     Item(Str("c"), IntVal(3))>>)) =>
        ret = Ok("dict(\n\t\t#0 a: 1,\n\t\t#1 b: 2,\n\t\t#2 c: 3\n\t)")

\* the line that stands for the elements of a sequence of n > 20 elements left out
C8_Marker(n) == "\t\t... + " \o IntStr(n - 20) \o " items"

\* C8: a sequence of n elements renders at level 1 as the line of its type
\* name, then min(n, 20) lines "<i>: <str(element i)>" for i = 0 .. min(n, 20) - 1,
\* then the line "... + <n - 20> items" if and only if n > 20, then the
\* closing line (stated on the lines of the output, for elements whose
\* native string has no newline).
C8_SeqLevel1 ==
    (/\ call = "to_str" /\ lvl = 1 /\ obj.t \in SeqClasses /\ Returned(ret)
     /\ \A i \in 1..Len(obj.elems) : ~Contains(Call("str", obj.elems[i], 0).s, "\n")) =>
        LET n == Len(obj.elems)
            k == IF n < 20 THEN n ELSE 20
            lines == Lines(ret.s)
        IN  /\ Len(lines) = IF n = 0 THEN 3 ELSE k + 2 + (IF n > 20 THEN 1 ELSE 0)
            /\ lines[1] = obj.t \o "("
            /\ lines[Len(lines)] = "\t)"
            /\ n = 0 => lines[2] = "\t\t"
            /\ \A i \in 1..k :
                  lines[i + 1] = "\t\t" \o IntStr(i - 1) \o ": "
                                 \o Call("str", obj.elems[i], 0).s
                                 \o (IF i < k \/ n > 20 THEN "," ELSE "")
            /\ n > 20 => lines[k + 2] = C8_Marker(n)
            /\ (\E j \in 1..Len(lines) : Prefix(lines[j], 8) = "\t\t... + ") <=> n > 20

C8_Witness ==
    /\ call = "to_str"
    /\ lvl = 1
    /\ obj = Seqn("list", GenSeq("index", 25))
    /\ Returned(ret)
    /\ Len(Lines(ret.s)) = 23
    /\ Lines(ret.s)[22] = "\t\t... + 5 items"

\* C9: str(obj) of an OBJ instance is the type name, a space, and the entries
\* "key = to_str(value, 0)" of _get_data(0) joined by ", " in insertion
\* order; a subtype T whose _get_data(0) is {"x": 5} gives "T x = 5".
C9_StrFormat ==
    /\ (call = "__str__" /\ Returned(ret)) =>
          LET d == self_get_data(obj, 0).data
          IN  ret.s = obj.cls \o " "
                      \o join(", ", [i \in 1..Len(d) |->
                             d[i].k \o " = " \o Call("to_str", d[i].v, 0).s])
    /\ (call = "__str__" /\ obj.cls = "T" /\ obj.snap[1] = [k \in {"x"} |-> IntVal(5)]) =>
          ret = Ok("T x = 5")
    /\ (call = "__str__" /\ obj = Uniform("TIMER", IntVal(1))) =>
          ret = Ok("TIMER name = 1, lvl = 1, start = 1")

C9_Witness ==
    /\ call = "__str__"
    /\ obj.cls = "T"
    /\ obj.snap[1] = [k \in {"x"} |-> IntVal(5)]
    /\ ret = Ok("T x = 5")

\* C10: repr(obj) of an OBJ instance of type T is the line "<T", then the
\* entries "key = to_str(value, 1)" of _get_data(1) in insertion order, each
\* on a line indented by one tab, separated by a comma and a newline with no
\* separator after the last, then the line "/T>"; a newline inside a rendered
\* value is followed by one more tab.
C10_ReprFormat ==
    /\ (call = "__repr__" /\ Returned(ret)) =>
          LET d == self_get_data(obj, 1).data
              lines == Lines(ret.s)
          IN  /\ ret.s = "<" \o obj.cls \o "\n\t"
                         \o join(",\n\t", [i \in 1..Len(d) |->
                                d[i].k \o " = "
                                \o replace(Call("to_str", d[i].v, 1).s, "\n", "\n\t")])
                         \o "\n/" \o obj.cls \o ">"
              /\ lines[1] = "<" \o obj.cls
              /\ lines[Len(lines)] = "/" \o obj.cls \o ">"
              /\ \A j \in 2..(Len(lines) - 1) : Prefix(lines[j], 1) = "\t"
    /\ (call = "__repr__" /\ obj = T(IntVal(5), Str("a\nb"), None)) =>
          ret = Ok("<T\n\tx = 5,\n\ty = \"\n\t\t\ta\n\t\t\tb\n\t\t\"\n/T>")

C10_Witness ==
    /\ call = "__repr__"
    /\ obj = T(IntVal(5), Str("a\nb"), None)
    /\ Returned(ret)
    /\ Len(Lines(ret.s)) = 7

\* C11 as stated: debug(0) of an object whose snapshots of level 1 and of
\* level 2 are equal, with every stored value rendering alike at level 1 and
\* at level 2, is character for character the multiple line representation
\* of the object.
C11_Original ==
    (/\ call = "debug" /\ indent = 0 /\ Returned(ret)
     /\ self_get_data(obj, 1).data = self_get_data(obj, 2).data
     /\ \A i \in 1..Len(self_get_data(obj, 2).data) :
           Call("to_str", self_get_data(obj, 2).data[i].v, 1)
               = Call("to_str", self_get_data(obj, 2).data[i].v, 2)) =>
        ret = Call("__repr__", obj, 0)

\* C12 as stated: to_str of an OBJ instance returns the multiple line
\* representation (__repr__) of the instance at level 1 and at level 2, and
\* its single line representation (__str__, made a single line of at most
\* the kept length by the level-0 editing) at level 0.
C12_Original ==
    (call = "to_str" /\ obj.t = "OBJ" /\ lvl \in {0, 1, 2}) =>
        IF lvl \in {1, 2}
        THEN ret = Call("__repr__", obj, 0)
        ELSE \/ ret = Call("__str__", obj, 0)
             \/ /\ Returned(ret)
                /\ Returned(Call("__str__", obj, 0))
                /\ ret.s = SingleLine(Call("__str__", obj, 0).s)

\* text is a part of out
C13_Appears(text, out) ==
    \E i \in 1..(Len(out) - Len(text) + 1) : SubSeq(out, i, i + Len(text) - 1) = text

\* C13 as stated: when a mapping with an OBJ instance among its values is
\* rendered at level 1, the call returns and the multiple line representation
\* of the instance is in the output (as it is, with the indent of a nested
\* value, or made a single line).
C13_Original ==
    (call = "to_str" /\ lvl = 1 /\ obj.t = "dict") =>
        \A i \in 1..Len(obj.items) :
            obj.items[i].v.t = "OBJ" =>
                LET text == Call("__repr__", obj.items[i].v, 0).s
                IN  /\ Returned(ret)
                    /\ \/ C13_Appears(text, ret.s)
                       \/ C13_Appears(replace(text, "\n", "\n\t"), ret.s)
                       \/ C13_Appears(SingleLine(text), ret.s)

C15_Original ==
    (call = "_get_data" /\ lvl = 2 /\ ret.err = "none") =>
        LET d == self_get_data(obj, 1).data
        IN  \A i \in 1..Len(d) : \E j \in 1..Len(ret.data) : ret.data[j].k = d[i].k

\* the timer at the start of the chain of laps that made timer id
RECURSIVE C17_Root(_)
C17_Root(id) == IF timers[id].parent = 0 THEN id ELSE C17_Root(timers[id].parent)

\* C17: a timer of level -1 hands no record to the logger, at its creation,
\* on log(), on stop() or at its destruction; every timer made from it by a
\* chain of lap() calls has level -1 as well, get_sub() giving -1 for every
\* indent, and logs nothing either; the timer that lap(name, indent) makes
\* from a timer of level L >= 0 has level L + indent.
C17_SilentTimers ==
    /\ \A i \in 1..Len(log) : timers[log[i].by].lvl # -1
    /\ \A id \in 1..Len(timers) :
          /\ timers[C17_Root(id)].lvl = -1 =>
                /\ timers[id].lvl = -1
                /\ \A n \in TimerIndents : TIMER_get_sub(timers[id], n) = -1
                /\ \A i \in 1..Len(log) : log[i].by # id
          /\ (timers[id].parent # 0 /\ timers[timers[id].parent].lvl = -1) =>
                timers[id].lvl = -1
    /\ (last.op = "get_sub" /\ timers[last.self].lvl = -1) => last.val = -1
    /\ (last.op = "lap" /\ timers[last.self].lvl >= 0) =>
          timers[last.val].lvl = timers[last.self].lvl + last.indent

\* a timer of level -1, the timer made from it by lap and the timer made from
\* that one were created, the last was destroyed and the second stopped
\* after some time, and the logger has no record
C17_Witness ==
    /\ Len(timers) = 3
    /\ timers[1].lvl = -1
    /\ timers[2].parent = 1
    /\ timers[3].parent = 2
    /\ ~timers[3].alive
    /\ last.op = "stop"
    /\ last.self = 2
    /\ last.val > 0
    /\ log = <<>>

\* the name of a file has a known type: the standard guess gives a type for
\* it or its extension is a key of FILETYPES
C18_KnownType(file_name) ==
    \/ guess_type(file_name)[1].some
    \/ splitext(file_name)[2] \in DOMAIN FILETYPES

\* C18 as stated: after any sequence of add_attachment calls made with one
\* max_size the sizes of the stored attachments add up to max_size at most; a
\* call that returns False was given a name of unknown type or a file that
\* goes over the limit, and leaves the attachments as they were; a call that
\* returns True appends the pair of the name and the data given.
C18_Original ==
    /\ SumSizes(attachments) <= max_size
    /\ (mail.op = "add_attachment" /\ ~mail.ret) =>
          /\ attachments = mail.before
          /\ \/ ~C18_KnownType(mail.file_name)
             \/ mail.file_data.size > max_size - SumSizes(mail.before)
    /\ (mail.op = "add_attachment" /\ mail.ret) =>
          attachments = Append(mail.before,
                               [name |-> mail.file_name, data |-> mail.file_data])

\* C19 as stated: add_attachment returns True and stores the file when the
\* file is within the size limit and its name has a known type (one that the
\* standard guess recognises or one registered in FILETYPES, as .xlsx), and
\* returns False only for a name of unknown type or a file over the limit.
C19_Original ==
    mail.op = "add_attachment" =>
        (mail.ret <=> /\ C18_KnownType(mail.file_name)
                      /\ mail.file_data.size <= max_size - SumSizes(mail.before))

\* C20 as stated: send propagates no exception raised while the message is
\* built or the server is talked to: it logs the error and returns False;
\* and it returns True exactly when the sendmail call completed, whether or
\* not recipients bounced.
C20_Original ==
    mail.op = "send" =>
        /\ mail.ret <=> mail.sendmail
        /\ ~mail.ret => log[Len(log)].lvl = ERROR

\* C21: the n headers of a sheet hold exactly the positions 0..n-1, given in
\* insertion order, and their ids are unique, after any sequence of add_header
\* calls (those of the constructor included); add_header with a new id adds the
\* header at the next position, and add_header with an id that already exists
\* raises PreExistingColumnID and leaves the headers (ids, positions, header
\* data) unchanged
C21_ContiguousPositions ==
    /\ \A i \in 1..Len(sheet.headers) : sheet.headers[i].pos = i - 1
    /\ \A i, j \in 1..Len(sheet.headers) :
          sheet.headers[i].id = sheet.headers[j].id => i = j
    /\ xlsx.op = "add_header" =>
          IF \E i \in 1..Len(xlsx.before.headers) :
                 xlsx.before.headers[i].id = xlsx.arg.id
          THEN /\ xlsx.err = "PreExistingColumnID"
               /\ sheet.headers = xlsx.before.headers
          ELSE /\ xlsx.err = "none"
               /\ Len(sheet.headers) = Len(xlsx.before.headers) + 1
               /\ SubSeq(sheet.headers, 1, Len(xlsx.before.headers)) = xlsx.before.headers
               /\ sheet.headers[Len(sheet.headers)].id = xlsx.arg.id
               /\ sheet.headers[Len(sheet.headers)].header = xlsx.arg.header

\* a sheet of three headers on which add_header was called with the id of its
\* first header and another header data, and raised
C21_Witness ==
    /\ Len(sheet.headers) = 3
    /\ xlsx.op = "add_header"
    /\ xlsx.err = "PreExistingColumnID"
    /\ xlsx.arg.id = sheet.headers[1].id
    /\ xlsx.arg.header # sheet.headers[1].header

\* C22: create() on a workbook of k >= 1 sheets completes and returns a file of
\* one worksheet per sheet, in order, each with the name of its sheet, the
\* labels of the headers in row 0 and each data cell written exactly when its
\* column id is one of the headers of the sheet
C22_Original ==
    (xlsx.op = "create" /\ Len(sheets) >= 1) =>
        /\ xlsx.err = "none"
        /\ Len(xlsx.file) = Len(sheets)
        /\ \A i \in 1..Len(sheets) :
              /\ xlsx.file[i].name = sheets[i].name
              /\ \A h \in 1..Len(sheets[i].headers) :
                    [row |-> 0, col |-> sheets[i].headers[h].pos,
                     data |-> sheets[i].headers[h].header.label] \in xlsx.file[i].cells
              /\ \A r \in 1..Len(sheets[i].data) : \A c \in 1..Len(sheets[i].data[r]) :
                    (\E cell \in xlsx.file[i].cells :
                        cell.row = r /\ cell.data = sheets[i].data[r][c].v)
                    <=> HasHeader(sheets[i], sheets[i].data[r][c].k)

\* C23: a mapping rendered at level L in {1, 2} renders each of its values
\* with to_str at level L - 1: the output is the block of the entries
\* "#<i> <key>: <to_str(value, L - 1)>", and at level 1 every value is on one
\* line, with the newline replacement and the truncation of level 0
C23_MappingLevels ==
    (call = "to_str" /\ obj.t = "dict" /\ lvl \in {1, 2}) =>
        LET n == Len(obj.items)
            key(i) == Call("str", obj.items[i].k, 0)
            val(i) == Call("to_str", obj.items[i].v, lvl - 1)
            entry(i) ==
                IF ~Returned(key(i)) THEN key(i)
                ELSE IF ~Returned(val(i)) THEN val(i)
                ELSE Ok("#" \o IntStr(i - 1) \o " " \o key(i).s \o ": "
                        \o replace(val(i).s, "\n", "\n\t"))
            inner == JoinR(",\n\t\t", [i \in 1..n |-> entry(i)])
        IN  /\ ret = IF Returned(inner) THEN Ok("dict(\n\t\t" \o inner.s \o "\n\t}")
                     ELSE inner
            /\ (lvl = 1 /\ Returned(ret) /\ n > 0) =>
                  /\ Len(Lines(ret.s)) = n + 2
                  /\ \A i \in 1..n :
                        Lines(ret.s)[i + 1] =
                            "\t\t#" \o IntStr(i - 1) \o " " \o key(i).s \o ": "
                            \o SingleLine(Dispatch(obj.items[i].v, 0).s)
                            \o (IF i < n THEN "," ELSE "")

\* a mapping in a mapping rendered at level 2: the inner mapping is rendered at
\* level 1 and its value at level 0
C23_Witness ==
    /\ call = "to_str"
    /\ lvl = 2
    /\ obj = Dict(<<Item(Str("a"), Dict(<<Item(Str("k"), Str("a\nb"))>>))>>)
    /\ ret = Ok("dict(\n\t\t#0 a: dict(\n\t\t\t#0 k: \"a< NEWLINE />b\"\n\t\t}\n\t}")

\* C24: a sequence or set-like container rendered at level 2 has one entry
\* "#<index>: <to_str(element, 1)>" for every element, whatever its length, and
\* no "... + n items" line
C24_SeqLevel2 ==
    (call = "to_str" /\ obj.t \in SeqClasses /\ lvl = 2) =>
        LET n == Len(obj.elems)
            val(i) == Call("to_str", obj.elems[i], 1)
            entry(i) ==
                IF ~Returned(val(i)) THEN val(i)
                ELSE Ok("#" \o IntStr(i - 1) \o ": " \o replace(val(i).s, "\n", "\n\t"))
            inner == JoinR(",\n\t\t", [i \in 1..n |-> entry(i)])
        IN  /\ ret = IF Returned(inner) THEN Ok(obj.t \o "(\n\t\t" \o inner.s \o "\n\t)")
                     ELSE inner
            /\ Returned(ret) =>
                  /\ \A i \in 1..n : \E j \in 1..Len(Lines(ret.s)) :
                        Prefix(Lines(ret.s)[j], Len(IntStr(i - 1)) + 5)
                            = "\t\t#" \o IntStr(i - 1) \o ": "
                  /\ \A j \in 1..Len(Lines(ret.s)) :
                        Prefix(Lines(ret.s)[j], 8) # "\t\t... + "

\* a list of 25 strings rendered at level 2: the last entry is there, and
\* holds the level-1 rendering of the string
C24_Witness ==
    /\ call = "to_str"
    /\ lvl = 2
    /\ obj = Seqn("list", GenSeq("lines", 25))
    /\ Returned(ret)
    /\ Len(Lines(ret.s)) = 102
    /\ Lines(ret.s)[98] = "\t\t#24: \""
    /\ Lines(ret.s)[99] = "\t\t\ta"
    /\ Lines(ret.s)[100] = "\t\t\tb25"
    /\ Lines(ret.s)[101] = "\t\t\""

\* C25: the single-line editing of level 0 (newline replacement, then
\* truncation) returns unchanged a string that it has produced
C25_Original ==
    (call = "to_str" /\ lvl = 0 /\ Returned(ret)) => SingleLine(ret.s) = ret.s

\* C26: in a rendering started at a level of {0, 1, 2}, every to_str call made,
\* by to_str itself or through str, repr, __str__ and __repr__, is given a
\* level of {0, 1, 2}, and the rendering does not raise the invalid level error
C26_ValidRecursionLevels ==
    (call = "to_str" /\ ValidLevel(lvl)) =>
        /\ ToStrLevels("to_str", obj, lvl) \subseteq {0, 1, 2}
        /\ ret.err # "ValueError"

\* a rendering at level 2 that makes to_str calls at level 1 and at level 0
C26_Witness ==
    /\ call = "to_str"
    /\ lvl = 2
    /\ obj.t = "dict"
    /\ ToStrLevels("to_str", obj, lvl) = {0, 1}
    /\ Returned(ret)

\* C29: to_str of an OBJ instance at a level of {0, 1, 2} takes the callable
\* branch and gives what reading __name__ on the instance gives; the OBJ branch
\* is taken for no value
C29_CallableBranch ==
    /\ Branch(obj) # "OBJ"
    /\ (call = "to_str" /\ obj.t = "OBJ" /\ ValidLevel(lvl)) =>
          /\ Callable(obj)
          /\ Branch(obj) = "callable"
          /\ ret = NameOf(obj)

\* to_str of an instance of a subtype at level 1
C29_Witness ==
    /\ call = "to_str"
    /\ lvl = 1
    /\ obj.t = "OBJ"
    /\ obj.cls = "XLSX_Header"
    /\ ret = Raise("AttributeError")

\* C30: every call of to_str to itself gives a level strictly below the one
\* its caller received (the values of a mapping level - 1, the elements of a
\* sequence at level 2 level 1, no self-call at level 0 nor for a sequence at
\* level 1), so no more than 3 to_str calls are nested, and the third one, at
\* level 0, leaves what is nested in its argument to str and repr
C30_StrictDescent ==
    (call = "to_str" /\ ValidLevel(lvl)) =>
        LET calls == SelfCalls(obj, lvl, 1)
        IN  /\ \A c \in calls : c.lvl < c.from /\ c.depth <= 3
            /\ \A c \in calls :
                  c.depth = 2 => c.lvl = IF obj.t = "dict" THEN lvl - 1 ELSE 1
            /\ (lvl = 0 \/ (lvl = 1 /\ obj.t \in SeqClasses)) => calls = {}
            /\ \A c \in calls :
                  c.depth = 3 =>
                      /\ c.lvl = 0
                      /\ \A d \in Subcalls("to_str", c.arg, c.lvl) : d[1] \in {"str", "repr"}

\* mappings nested four deep rendered at level 2: three to_str calls are
\* nested and the innermost mapping is in its native form
C30_Witness ==
    /\ call = "to_str"
    /\ lvl = 2
    /\ obj = Dict(<<Item(Str("a"), Dict(<<Item(Str("b"), Dict(<<Item(Str("c"),
                 Dict(<<Item(Str("d"), Str("a\nb"))>>))>>))>>))>>)
    /\ \E c \in SelfCalls(obj, lvl, 1) : c.depth = 3
    /\ ret = Ok("dict(\n\t\t#0 a: dict(\n\t\t\t#0 b: {'c': {'d': 'a\\nb'}}\n\t\t}\n\t}")

-----------------------------------------------------------------------------
(* C27: cycles *)

\* the objects that the call was given or reaches
Visited == {obj.addr} \cup Reach(heap, obj.addr)

\* the graph that was rendered contains a cycle
Cyclic == \E b \in Visited : b \in Reach(heap, b)

\* C27 as stated: rendering a container or an OBJ graph that contains a cycle
\* never ends normally
C27_Original ==
    (call # "none" /\ Cyclic) => ~Returned(ret)

\* C27: no function of the renderer records what it has visited, yet a cycle
\* made of lists and dicts alone is rendered, at every level and by str and
\* repr: the levels run out after two nested calls and the native conversion
\* prints the container it meets again as [...] or {...}.  The recursion is
\* without bound only when an instance of OBJ lies on the cycle, and no call
\* fails otherwise than with AttributeError or RecursionError
C27_ContainerCyclesRendered ==
    call # "none" =>
        /\ ret.err \in {"none", "AttributeError", "RecursionError"}
        /\ (\A b \in Visited : heap[b].t # "OBJ") => Returned(ret)
        /\ ret.err = "RecursionError" =>
              \E b \in Visited : heap[b].t = "OBJ" /\ b \in Reach(heap, b)

\* to_str(l, 2) of the list l = [l] returns
C27_Witness ==
    /\ call = "to_str"
    /\ lvl = 2
    /\ obj = Ref(1)
    /\ heap[1] = Node("list", <<Ref(1)>>)
    /\ Cyclic
    /\ ret = Ok("list(\n\t\t#0: list(\n\t\t\t0: [[...]]\n\t\t)\n\t)")

-----------------------------------------------------------------------------
(* The laps: with-blocks of t.lap(name, k) on the timer t = timers[1].  The *)
(* timer of a block has no name in the program: it lives from the call of  *)
(* lap to the end of the block, where its last reference goes away.  blocks *)
(* holds the timers of the blocks that are open, innermost last; opened     *)
(* keeps, for the timer Len(timers) of each block entered, the indent given *)
(* and the blocks that were open around it.                                 *)

TIMER___del___Mut(lg, id, self, now) == TIMER_stop(lg, id, self, now, 0).log

\* TIMER.__del__(self): the logger after the call
TIMER___del__(lg, id, self, now) == TIMER_stop(lg, id, self, now, 1).log

\* the timer of the block that opened[i] describes
LapOf(i) == i + 1

LapInit ==
    /\ obj = None
    /\ lvl = 0
    /\ call = "none"
    /\ ret = Ok("")
    /\ indent = 0
    /\ other = None
    /\ \E name \in TimerNames, l \in TimerLevels :
          LET t == TIMER___init__(name, l, 0, 0)
          IN  /\ timers = <<t>>
              /\ log = TIMER_log(<<>>, 1, t, t.name, DEBUG, 0, "| - ")
    /\ clock = 0
    /\ last = NoCall
    /\ attachments = <<>>
    /\ max_size = 0
    /\ mail = NoMail
    /\ sheet = NoSheet
    /\ sheets = <<>>
    /\ xlsx = NoXlsx
    /\ heap = <<>>
    /\ blocks = <<>>
    /\ opened = <<>>

\* with t.lap(name, k): the block is entered.  lap makes the timer, which
\* logs its name; __enter__ returns it and changes nothing
With_lap ==
    /\ Len(opened) < MaxLaps
    /\ \E name \in TimerNames, k \in TimerIndents :
          LET id == Len(timers) + 1
              self == TIMER___init__(name, TIMER_get_sub(timers[1], k), clock, 1)
          IN  /\ timers' = Append(timers, self)
              /\ log' = TIMER_log(log, id, self, self.name, DEBUG, 0, "| - ")
              /\ blocks' = Append(blocks, id)
              /\ opened' = Append(opened, [k |-> k, within |-> blocks])
              /\ last' = [op |-> "lap", self |-> 1, indent |-> k, val |-> id]
    /\ UNCHANGED <<obj, lvl, call, ret, indent, other, clock, emailVars, xlsxVars,
                   graphVars>>

\* the innermost block ends, normally or by an exception: __exit__ returns
\* None, then the timer of the block loses its last reference and __del__ runs
End_with ==
    /\ blocks # <<>>
    /\ LET id == blocks[Len(blocks)]
       IN  /\ log' = TIMER___del__(log, id, timers[id], clock)
           /\ timers' = [timers EXCEPT ![id].alive = FALSE]
           /\ blocks' = SubSeq(blocks, 1, Len(blocks) - 1)
           /\ last' = NoCall
    /\ UNCHANGED <<obj, lvl, call, ret, indent, other, clock, emailVars, xlsxVars,
                   graphVars, opened>>

\* t.stop(), once all blocks have ended
Stop_t ==
    /\ blocks = <<>>
    /\ last.op # "stop"
    /\ LET r == TIMER_stop(log, 1, timers[1], clock, 0)
       IN  /\ log' = r.log
           /\ last' = [op |-> "stop", self |-> 1, indent |-> 0, val |-> r.diff]
    /\ UNCHANGED <<obj, lvl, call, ret, indent, other, timers, clock, emailVars,
                   xlsxVars, graphVars, lapVars>>

\* the clock stays at its first reading: the times that the lines report have
\* no part in their order or indentation
LapNext ==
    \/ With_lap
    \/ End_with
    \/ Stop_t

LapSpec == LapInit /\ [][LapNext]_vars

-----------------------------------------------------------------------------
(* C28: the laps of nested with-blocks *)

\* the places of the log that hold a record of timer id
RecordsOf(id) == {p \in 1..Len(log) : log[p].by = id}

\* the line with which a timer of level l logs msg at n more levels
LineAt(l, n, msg) == Rep("|\t", l + n) \o "| - " \o msg

\* the block opened[i] has ended
Ended(i) == ~timers[LapOf(i)].alive

\* the lap of opened[i] has logged its name at level l when it was made and
\* its elapsed time at level l + 1 when its block ended, and nothing else
LoggedAt(i, l) ==
    LET id == LapOf(i)
        el == LineAt(l, 1, "Elapsed Time: ")
    IN  \E n \in RecordsOf(id) :
           /\ log[n].msg = LineAt(l, 0, timers[id].name)
           /\ IF Ended(i)
              THEN \E e \in RecordsOf(id) :
                      /\ n < e
                      /\ RecordsOf(id) = {n, e}
                      /\ Prefix(log[e].msg, Len(el)) = el
              ELSE RecordsOf(id) = {n}

\* the records of the lap of opened[j], made inside the block of opened[i],
\* lie after the name line of that block and before its elapsed line
NestedIn(j, i) ==
    /\ \A p \in RecordsOf(LapOf(j)) : \A q \in RecordsOf(LapOf(i)) :
          (log[q].msg = LineAt(timers[LapOf(i)].lvl, 0, timers[LapOf(i)].name)) <=> q < p
    /\ Ended(i) => Ended(j)

WellNested(Laps) ==
    \A i \in Laps :
       /\ LoggedAt(i, timers[1].lvl + opened[i].k)
       /\ \A j \in Laps : (\E b \in 1..Len(opened[j].within) : opened[j].within[b] = LapOf(i)) => NestedIn(j, i)

\* C28 as stated: whatever the indents k given to lap
C28_Original ==
    timers[1].lvl >= 0 => WellNested(1..Len(opened))

\* C28: for an enabled timer t, the laps made with an indent k such that
\* level(t) + k >= 0 are well-nested in the log: each logs its name at level
\* level(t) + k when it is made and its elapsed time at level(t) + k + 1 when
\* its block ends, after its own name line and after the lines of every such
\* lap nested inside it, hence before the elapsed line of every enclosing one.
\* A lap made with level(t) + k < 0 is disabled and logs nothing
C28_WellNestedLaps ==
    timers[1].lvl >= 0 =>
        /\ WellNested({i \in 1..Len(opened) : timers[1].lvl + opened[i].k >= 0})
        /\ \A i \in 1..Len(opened) :
              timers[1].lvl + opened[i].k < 0 => RecordsOf(LapOf(i)) = {}

\* three blocks, the second and the third inside the first one, have ended
C28_Witness ==
    /\ timers[1].lvl = 0
    /\ Len(opened) = 3
    /\ blocks = <<>>
    /\ opened[1].k = 0 /\ opened[2].k = 1 /\ opened[3].k = 1
    /\ opened[2].within = <<2>> /\ opened[3].within = <<2>>
    /\ Len(log) = 7
    /\ log[7].by = 2
    /\ log[6].by = 4

====
